---- MODULE Spec2Model ----
(***************************************************************************)
(* Model of the MarketHawk job/workflow execution core:                    *)
(*   lens/job.py       JobManager (the persisted job record, job.yaml)     *)
(*   lens/workflow.py  StepContext and WorkflowOrchestrator                *)
(*   lens/step_registry.py, lens/batch_processor.py (batch runs and the    *)
(*   shared download cache), lens/process_earnings.py (StateManager),      *)
(*   lens/refine_timestamps.py (timestamp refinement)                      *)
(*                                                                         *)
(* One orchestrator process at a time works on one job file.  The file is  *)
(* the only state that survives a crash of the process.                    *)
(***************************************************************************)
EXTENDS Integers, Sequences, FiniteSets, TLC

(***************************************************************************)
(* Bounds of the model.                                                    *)
(***************************************************************************)
\* number of orchestrator processes started on the job, one after the other
MaxRuns == 2
\* longest expression (in tokens) handed to resolve_variable
MaxExprLen == 6
\* number of jobs of a batch
MaxJobs == 3
\* number of chunks _download_file writes into source.mp4
MaxChunks == 2
\* number of bursts of words in a transcript
MaxBursts == 3

(***************************************************************************)
(* Strings.  A string that resolve_variable takes apart is a sequence of   *)
(* tokens: the four punctuation characters it looks at and a few names     *)
(* (a name contains none of these characters).  All other strings (keys,   *)
(* statuses, values) are TLA+ strings.                                     *)
(***************************************************************************)
Tokens == {"$", "{", "}", ".", "input", "job", "download", "value"}

\* dict lookups with a key given as token sequence: only a single name can
\* be a key of the dicts of this model
IsKey(s, dict) == Len(s) = 1 /\ s[1] \in DOMAIN dict

EmptyDict == [k \in {} |-> ""]

\* d1 updated with every item of d2 (dict[key] = value for each item)
Merge(d1, d2) ==
    [k \in (DOMAIN d1) \cup (DOMAIN d2) |-> IF k \in DOMAIN d2 THEN d2[k] ELSE d1[k]]

\* dict.get(key, {}) for dict-valued entries
GetDict(dict, key) == IF key \in DOMAIN dict THEN dict[key] ELSE EmptyDict

\* dict.get(key) for scalar entries; None is the string "None"
GetStr(dict, key) == IF key \in DOMAIN dict THEN dict[key] ELSE "None"

(***************************************************************************)
(* StepContext.resolve_variable.  The outcome is a record: tag "lit" (the  *)
(* expression returned as it is, in lit), "val" (the value found, in val), *)
(* or the exception raised ("KeyError", "ValueError").                     *)
(***************************************************************************)
Lit(e)      == [tag |-> "lit", val |-> "", lit |-> e]
Val(v)      == [tag |-> "val", val |-> v, lit |-> <<>>]
Raise(exc)  == [tag |-> exc, val |-> "", lit |-> <<>>]

startswith(e) == Len(e) >= 2 /\ e[1] = "$" /\ e[2] = "{"
endswith(e)   == Len(e) >= 1 /\ e[Len(e)] = "}"

\* index of the first "." of s, 0 when there is none (str.split('.', 1))
FirstDot(s) ==
    IF \E i \in 1..Len(s) : s[i] = "."
    THEN CHOOSE i \in 1..Len(s) : s[i] = "." /\ \A j \in 1..(i-1) : s[j] # "."
    ELSE 0

get_output(outputs, step_id, key) ==
    IF ~IsKey(step_id, outputs) THEN Raise("KeyError")
    ELSE IF ~IsKey(key, outputs[step_id[1]]) THEN Raise("KeyError")
    ELSE Val(outputs[step_id[1]][key[1]])

\* resolve_variable with "and" for "or" in its test for a literal
resolve_variable_and(expression, job_data, outputs) ==
    IF ~startswith(expression) /\ ~endswith(expression) THEN Lit(expression)
    ELSE LET var_path == SubSeq(expression, 3, Len(expression) - 1)
             dot      == FirstDot(var_path)
             source   == SubSeq(var_path, 1, dot - 1)
             field    == SubSeq(var_path, dot + 1, Len(var_path))
         IN  IF dot = 0 THEN Raise("ValueError")
             ELSE IF source = <<"input">> THEN
                  LET input_data == GetDict(job_data, "input")
                  IN  IF ~IsKey(field, input_data) THEN Raise("KeyError")
                      ELSE Val(input_data[field[1]])
             ELSE IF source = <<"job">> THEN
                  IF ~IsKey(field, job_data) THEN Raise("KeyError")
                  ELSE Val(job_data[field[1]])
             ELSE get_output(outputs, source, field)

resolve_variable(expression, job_data, outputs) ==
    IF ~startswith(expression) \/ ~endswith(expression) THEN Lit(expression)
    ELSE LET var_path == SubSeq(expression, 3, Len(expression) - 1)
             dot      == FirstDot(var_path)
             source   == SubSeq(var_path, 1, dot - 1)
             field    == SubSeq(var_path, dot + 1, Len(var_path))
         IN  IF dot = 0 THEN Raise("ValueError")
             ELSE IF source = <<"input">> THEN
                  LET input_data == GetDict(job_data, "input")
                  IN  IF ~IsKey(field, input_data) THEN Raise("KeyError")
                      ELSE Val(input_data[field[1]])
             ELSE IF source = <<"job">> THEN
                  IF ~IsKey(field, job_data) THEN Raise("KeyError")
                  ELSE Val(job_data[field[1]])
             ELSE get_output(outputs, source, field)

(***************************************************************************)
(* The message of the exception resolve_variable raises: its text (without *)
(* the interpolated names), the name it is about and the names it lists    *)
(* as available (none when the text has no list).                          *)
(***************************************************************************)
Message(text, about, available) ==
    [text |-> text, about |-> about, available |-> available]

NoMessage == Message("", <<>>, {})

get_output_message(outputs, step_id, key) ==
    IF ~IsKey(step_id, outputs)
    THEN Message("Step has not been executed or has no outputs", step_id, {})
    ELSE IF ~IsKey(key, outputs[step_id[1]])
    THEN Message("Step has no output. Available:", key, DOMAIN outputs[step_id[1]])
    ELSE NoMessage

resolve_variable_message(expression, job_data, outputs) ==
    IF ~startswith(expression) \/ ~endswith(expression) THEN NoMessage
    ELSE LET var_path == SubSeq(expression, 3, Len(expression) - 1)
             dot      == FirstDot(var_path)
             source   == SubSeq(var_path, 1, dot - 1)
             field    == SubSeq(var_path, dot + 1, Len(var_path))
         IN  IF dot = 0
             THEN Message("Invalid variable expression. Expected format: ${source.field}",
                          expression, {})
             ELSE IF source = <<"input">> THEN
                  LET input_data == GetDict(job_data, "input")
                  IN  IF ~IsKey(field, input_data)
                      THEN Message("Job input has no field. Available:", field,
                                   DOMAIN input_data)
                      ELSE NoMessage
             ELSE IF source = <<"job">> THEN
                  IF ~IsKey(field, job_data)
                  THEN Message("Job has no field", field, {})
                  ELSE NoMessage
             ELSE get_output_message(outputs, source, field)

(***************************************************************************)
(* step_registry.  STEP_HANDLERS maps a handler id to the function the     *)
(* module imported for it, or to None when the import failed.  A function  *)
(* is written as the string "<function>".                                  *)
(***************************************************************************)
None == "None"

\* the ids of the registry (a few of them); download_source is imported
\* without a guard, the steps/ modules inside try/except ImportError
HandlerIds == {"download_source", "transcribe_whisperx", "notify_seo",
               "refine_timestamps", "upload_youtube"}

Registries ==
    {r \in [HandlerIds -> {"<function>", None}] : r["download_source"] # None}

\* the registry of a deployment where every import succeeded
FullRegistry == [id \in HandlerIds |-> "<function>"]

\* an id no registry holds
UnregisteredId == "transcribe_whisper"

Found(fn) == [tag |-> "handler", fn |-> fn, available |-> {}]

NotCalled == [tag |-> "none", fn |-> None, available |-> {}]

\* get_handler that returns whatever the registry holds for a registered id
get_handler_registered(registry, name) ==
    IF name \in DOMAIN registry THEN Found(registry[name])
    ELSE [tag |-> "ValueError", fn |-> None, available |-> DOMAIN registry]

\* STEP_HANDLERS.get(handler_name), ValueError("Unknown step handler ...
\* Available handlers: <all keys>") when that is None
get_handler(registry, name) ==
    LET fn == IF name \in DOMAIN registry THEN registry[name] ELSE None
    IN  IF fn = None
        THEN [tag |-> "ValueError", fn |-> None, available |-> DOMAIN registry]
        ELSE Found(fn)

list_handlers(registry) ==
    [name \in DOMAIN registry |->
        IF registry[name] # None THEN "available" ELSE "not implemented"]

(***************************************************************************)
(* Workflow definitions (the YAML the orchestrator loads).  A descriptor   *)
(* has the keys the orchestrator reads: name, handler, required, skip_if,  *)
(* inputs, outputs.  NoCondition is an absent skip_if; a present one is    *)
(* the expression  processing.get(step, {}).get('status') == status.       *)
(***************************************************************************)
NoCondition == [step |-> "", status |-> ""]

RefInputValue    == <<"$", "{", "input", ".", "value", "}">>
RefInputStatus   == <<"$", "{", "input", ".", "status", "}">>
RefDownloadValue == <<"$", "{", "download", ".", "value", "}">>

StepDownload(required) ==
    [name |-> "download", handler |-> "download_source", required |-> required,
     skip_if |-> NoCondition, inputs |-> [url |-> RefInputValue],
     outputs |-> EmptyDict]

StepTranscribe(required, expression) ==
    [name |-> "transcribe", handler |-> "transcribe_whisperx", required |-> required,
     skip_if |-> NoCondition, inputs |-> [audio |-> expression],
     outputs |-> [text |-> "value"]]

StepNotify(required, skip_if) ==
    [name |-> "notify", handler |-> "notify_seo", required |-> required,
     skip_if |-> skip_if, inputs |-> EmptyDict,
     outputs |-> [url |-> "value"]]

Workflows ==
    { <<StepDownload(TRUE), StepTranscribe(TRUE, RefDownloadValue), StepNotify(TRUE, NoCondition)>>,
      <<StepDownload(FALSE), StepTranscribe(TRUE, RefDownloadValue),
        StepNotify(FALSE, [step |-> "download", status |-> "failed"])>>,
      <<StepDownload(TRUE), StepTranscribe(FALSE, RefInputStatus), StepNotify(TRUE, NoCondition)>>,
      <<StepDownload(TRUE), StepTranscribe(TRUE, RefInputStatus), StepNotify(FALSE, NoCondition)>>,
      <<StepDownload(TRUE),
        [StepTranscribe(TRUE, RefDownloadValue) EXCEPT !.handler = UnregisteredId],
        StepNotify(TRUE, NoCondition)>> }

\* what a handler can return (a handler is an external collaborator: any
\* of these, or an exception)
HandlerResults(handler) ==
    IF handler = "download_source" THEN {[value |-> "a"], [value |-> "b"]}
    ELSE IF handler = "transcribe_whisperx" THEN {[value |-> "a"], EmptyDict}
    ELSE {[value |-> "a"], [status |-> "error"]}

NoResult == [noresult |-> ""]

(***************************************************************************)
(* State.                                                                  *)
(***************************************************************************)
VARIABLES
    workflow,      \* self.workflow['steps']
    disk,          \* content of job.yaml: a job record, or Truncated
    job,           \* self.job.job of the running process (NoJob: no process)
    outputs,       \* self.context.outputs
    force,         \* self.force
    mode,          \* entry point of the running process
    start_index,   \* first step of the run
    idx,           \* position of the step loop (index into workflow)
    failed_steps,  \* run_all's counter
    pc,            \* position of the process
    cont,          \* position to continue at when _save has written the file
    runs,          \* processes started so far
    ended,         \* how the last process ended
    pre,           \* job.yaml as the running (or last) process loaded it
    visited,       \* steps _execute_step was called for, in call order
    invoked,       \* steps whose handler was called, in call order
    outcome,       \* per step: what _execute_step did in this run
    cause,         \* per step: why it failed in this run
    hres,          \* per step: the result its handler returned last
    died,          \* step whose handler was running when the last crash came (0: none)
    expression,    \* argument of a resolve_variable call
    result,        \* what that call gave
    message,       \* message of the exception that call raised
    STEP_HANDLERS, \* the registry as the import of step_registry built it
    handler_name,  \* argument of a get_handler call
    handler,       \* what that call gave
    listing,       \* what list_handlers returned
    batch_config,  \* BatchProcessor.batch_config (status, jobs, stats)
    batch_yaml,    \* content of batch.yaml
    job_yaml,      \* per job: the processing section of its job.yaml (Absent: no file)
    bpc,           \* position of the batch process
    bj,            \* position of process_batch's loop (index into jobs)
    bs,            \* position of process_job (index into StepNames)
    bhow,          \* per job: how process_job ended in this batch run
    bvisited,      \* jobs process_job was called for, in call order
    bexecuted,     \* per job, the steps whose step function was called
    bpre,          \* batch.yaml and the job.yaml files as the process found them
    bended,        \* how process_batch ended
    cache,         \* the files of _downloads/<youtube_id>/, by path
    cpos,          \* per job process: its position in step_download
    coffset,       \* per job process: file position of its open source.mp4
    cprivate,      \* per job process: the files of its job directory's source/
    cwrites,       \* the writes to files of the cache, in the order they happened
    clate,         \* per job process: it started after a download had completed
    state_file,    \* content of _downloads/<video_id>/.state.json
    temp_file,     \* content of .state.json.tmp
    lock,          \* the process that holds the flock on .state.lock (0: none)
    spos,          \* per process: its position in update_state
    sarg,          \* per process: the step and status of its update_state call
    slocal,        \* per process: the state it read and updates
    sbefore,       \* .state.json before the calls
    highlight,     \* the highlight of the job's insights (text, timestamp)
    hpre,          \* the highlight as refine_job_timestamps found it
    transcript,    \* the words of transcript.json with their start times
    returned,      \* what the calls of refine_timestamp_with_words returned, in order
    stats,         \* the statistics refine_job_timestamps returns
    rpos,          \* position of refine_job_timestamps
    job_yaml_path, \* job.yaml: the highlight's timestamp, the step's status and stats
    self_job       \* the same of the job record the orchestrator holds in memory

wfVars == <<workflow, disk, job, outputs, force, mode, start_index, idx, failed_steps,
            pc, cont, runs, ended, pre, visited, invoked, outcome, cause, hres, died>>
rvVars == <<expression, result, message>>
regVars == <<STEP_HANDLERS, handler_name, handler, listing>>
batchVars == <<batch_config, batch_yaml, job_yaml, bpc, bj, bs, bhow, bvisited, bexecuted,
               bpre, bended>>
cacheVars == <<cache, cpos, coffset, cprivate, cwrites, clate>>
stateVars == <<state_file, temp_file, lock, spos, sarg, slocal, sbefore>>
refVars == <<highlight, hpre, transcript, returned, stats, rpos, job_yaml_path, self_job>>
sideVars  == <<cacheVars, stateVars, refVars>>
vars   == <<wfVars, rvVars, regVars, batchVars, sideVars>>

Truncated == [truncated |-> TRUE]
NoJob     == [nojob |-> TRUE]

StepIdx == DOMAIN workflow

(***************************************************************************)
(* JobManager                                                              *)
(***************************************************************************)
\* update_step that sets the status and forgets to merge the data
update_step_status_only(j, step, status, data) ==
    LET rec0 == GetDict(j.processing, step)
        rec1 == Merge(rec0, [k \in {"status"} |-> status])
    IN  [j EXCEPT !.processing = Merge(@, [k \in {step} |-> rec1])]

\* the in-memory effect of update_step(step, status, **data)
update_step(j, step, status, data) ==
    LET rec0 == GetDict(j.processing, step)
        rec1 == Merge(rec0, [k \in {"status"} |-> status])
        rec2 == Merge(rec1, data)
    IN  [j EXCEPT !.processing = Merge(@, [k \in {step} |-> rec2])]

\* the in-memory effect of set_status(status)
set_status(j, status) == [j EXCEPT !.status = status]

\* parameter names of update_step: a keyword argument of the call that is
\* also passed through **result makes the call raise TypeError
ReservedKeys == {"self", "step", "status", "completed_at"}

(***************************************************************************)
(* WorkflowOrchestrator helpers                                            *)
(***************************************************************************)
_evaluate_condition(condition, j) ==
    GetStr(GetDict(j.processing, condition.step), "status") = condition.status

\* _should_skip_step without the check for a completed step
_should_skip_step_no_completed(step, j, f) ==
    /\ step.skip_if # NoCondition
    /\ _evaluate_condition(step.skip_if, j)

\* _should_skip_step that takes any recorded step that is not pending or
\* failed as done
_should_skip_step_started(step, j, f) ==
    \/ /\ ~f
       /\ step.name \in DOMAIN j.processing
       /\ GetStr(j.processing[step.name], "status") \notin {"pending", "failed"}
    \/ /\ step.skip_if # NoCondition
       /\ _evaluate_condition(step.skip_if, j)

\* _should_skip_step that skips a completed step whatever force says
_should_skip_step_ignores_force(step, j, f) ==
    \/ /\ step.name \in DOMAIN j.processing
       /\ GetStr(j.processing[step.name], "status") = "completed"
    \/ /\ step.skip_if # NoCondition
       /\ _evaluate_condition(step.skip_if, j)

_should_skip_step(step, j, f) ==
    \/ /\ ~f
       /\ step.name \in DOMAIN j.processing
       /\ GetStr(j.processing[step.name], "status") = "completed"
    \/ /\ step.skip_if # NoCondition
       /\ _evaluate_condition(step.skip_if, j)

\* _resolve_inputs that lets a KeyError pass (the input left out)
_resolve_inputs_ok_lenient(step, j, outs) ==
    \A n \in DOMAIN step.inputs :
        resolve_variable(step.inputs[n], j, outs).tag \in {"lit", "val", "KeyError"}

\* TRUE when every declared input resolves (no KeyError, no ValueError)
_resolve_inputs_ok(step, j, outs) ==
    \A n \in DOMAIN step.inputs :
        resolve_variable(step.inputs[n], j, outs).tag \in {"lit", "val"}

\* _register_outputs that registers the whole handler result whatever the
\* step declares
RegisteredOutputs_full(step, handler_result) == handler_result

\* the outputs _register_outputs registers for a step
RegisteredOutputs(step, handler_result) ==
    IF DOMAIN step.outputs = {} THEN handler_result
    ELSE [o \in {n \in DOMAIN step.outputs : step.outputs[n] \in DOMAIN handler_result}
             |-> handler_result[step.outputs[o]]]

_register_outputs(outs, step, handler_result) ==
    Merge(outs, [k \in {step.name} |-> RegisteredOutputs(step, handler_result)])

\* _restore_context_from_job that registers the whole step record whatever
\* outputs mapping the step declares
_restore_context_from_job_unmapped(wf, j) ==
    LET done == {i \in 1..Len(wf) :
                    GetStr(GetDict(j.processing, wf[i].name), "status") = "completed"}
    IN  [n \in {wf[i].name : i \in done} |-> j.processing[n]]

_restore_context_from_job(wf, j) ==
    LET done == {i \in 1..Len(wf) :
                    GetStr(GetDict(j.processing, wf[i].name), "status") = "completed"}
        stepOf(n) == wf[CHOOSE i \in done : wf[i].name = n]
    IN  [n \in {wf[i].name : i \in done} |-> RegisteredOutputs(stepOf(n), j.processing[n])]

(***************************************************************************)
(* The job as job.py's create_job writes it: status and processing come    *)
(* from the job template, input.type and input.value from the command     *)
(* line.  No step has run.                                                 *)
(***************************************************************************)
NewJobs ==
    { [job_id |-> "job_1", workflow |-> "wf", status |-> "pending",
       input |-> [type |-> "youtube_url", value |-> "u1"],
       processing |-> p] :
      p \in { EmptyDict,
              [n \in {"download", "transcribe", "notify"} |-> [status |-> "pending"]] } }

NoSteps == [i \in {1, 2, 3} |-> "none"]

Idle ==
    /\ job = NoJob /\ outputs = EmptyDict /\ force = FALSE /\ mode = "none"
    /\ start_index = 0 /\ idx = 0 /\ failed_steps = 0 /\ pc = "idle" /\ cont = "none"
    /\ runs = 0 /\ ended = "none" /\ pre = NoJob /\ visited = <<>> /\ invoked = <<>>
    /\ outcome = NoSteps /\ cause = NoSteps
    /\ hres = [i \in {1, 2, 3} |-> NoResult]
    /\ died = 0

(***************************************************************************)
(* BatchProcessor (lens/batch_processor.py).  A batch record has a status, *)
(* the list of its jobs and the aggregate counts; a job of the list has a  *)
(* status and, once process_job has started on it, the status of each      *)
(* pipeline step.                                                          *)
(***************************************************************************)
\* the pipeline steps of process_job, in its order
StepNames == <<"download", "transcribe", "insights", "validate",
               "fuzzy_match", "extract_audio", "upload_r2", "update_db">>

StepSet == {StepNames[i] : i \in DOMAIN StepNames}

\* the steps process_job gives a job that has none
PendingSteps == [n \in StepSet |-> "pending"]

\* a job reference as batch_setup writes it (no 'steps' key: EmptyDict)
NewBatchJob == [status |-> "pending", steps |-> EmptyDict]

\* the in-memory effect of update_job_status(job, step, status)
update_job_status(j, name, status) ==
    LET steps == [j.steps EXCEPT ![name] = status]
    IN  [j EXCEPT !.steps = steps,
                  !.status = IF status = "failed" THEN "failed"
                             ELSE IF \A n \in DOMAIN steps :
                                         steps[n] \in {"completed", "skipped"}
                                  THEN "completed"
                             ELSE IF \E n \in DOMAIN steps : steps[n] = "processing"
                                  THEN "processing"
                             ELSE @]

CountStatus(jobs, status) == Cardinality({i \in DOMAIN jobs : jobs[i].status = status})

\* the stats update_batch_stats computes
BatchStats(jobs) ==
    [total      |-> Len(jobs),
     pending    |-> CountStatus(jobs, "pending"),
     processing |-> CountStatus(jobs, "processing"),
     completed  |-> CountStatus(jobs, "completed"),
     failed     |-> CountStatus(jobs, "failed"),
     skipped    |-> CountStatus(jobs, "skipped")]

\* batch.yaml as batch_setup writes it for n jobs
NewBatch(n) ==
    [status |-> "pending",
     jobs   |-> [i \in 1..n |-> NewBatchJob],
     stats  |-> [total |-> n, pending |-> n, processing |-> 0, completed |-> 0,
                 failed |-> 0, skipped |-> 0]]

\* a job an earlier batch run completed
CompletedBatchJob == [status |-> "completed", steps |-> [n \in StepSet |-> "completed"]]

\* job.yaml's processing section after the download step
DownloadedSteps == [PendingSteps EXCEPT !["download"] = "completed"]

\* a job an earlier batch run was interrupted in, inside step_transcribe
InterruptedBatchJob ==
    [status |-> "pending", steps |-> [DownloadedSteps EXCEPT !["transcribe"] = "processing"]]

\* a job an earlier batch run was interrupted in after step_transcribe's
\* update_job_status(job, 'transcribe', 'completed') and before process_job's
\* update_job_yaml: job.yaml still is DownloadedSteps
InterruptedAfterStepJob ==
    [status |-> "pending", steps |-> [DownloadedSteps EXCEPT !["transcribe"] = "completed"]]

\* a job an earlier batch run left when KeyboardInterrupt arrived in the
\* except Exception branch for an exception out of step_transcribe
ProcessingBatchJob ==
    [status |-> "processing", steps |-> [DownloadedSteps EXCEPT !["transcribe"] = "processing"]]

\* a job of an earlier batch run whose step_transcribe returned False
FailedBatchJob ==
    [status |-> "failed", steps |-> [DownloadedSteps EXCEPT !["transcribe"] = "failed"]]

\* a job of an earlier batch run that step_validate found to be no earnings call
SkippedBatchJob ==
    [status |-> "skipped",
     steps  |-> [n \in StepSet |-> IF n \in {"download", "transcribe", "insights"}
                                   THEN "completed" ELSE "skipped"]]

\* the jobs process_job returned from, and the jobs a KeyboardInterrupt left
FinishedJobs == {CompletedBatchJob, FailedBatchJob, SkippedBatchJob}
LeftJobs     == {InterruptedBatchJob, InterruptedAfterStepJob, ProcessingBatchJob}

\* no job.yaml file
Absent  == [absent |-> TRUE]

\* the processing section of the job.yaml that goes with a job of batch.yaml
JobYamlOf(j) ==
    IF j = NewBatchJob THEN Absent
    ELSE IF j \in LeftJobs THEN DownloadedSteps
    ELSE j.steps

\* batch.yaml as an earlier batch run left it that finished the first d of
\* n jobs as done[1..d] and then was interrupted in the next one, leaving
\* it as j; the counts are those of the last update_batch_stats
InterruptedBatch(n, done, j) ==
    [status |-> "processing",
     jobs   |-> [i \in 1..n |-> IF i <= Len(done) THEN done[i]
                                ELSE IF i = Len(done) + 1 THEN j
                                ELSE NewBatchJob],
     stats  |-> BatchStats([i \in 1..n |-> IF i <= Len(done) THEN done[i] ELSE NewBatchJob])]

\* batch.yaml as an earlier batch run left it that returned
ReturnedBatch(done) ==
    [status |-> "completed", jobs |-> done, stats |-> BatchStats(done)]

\* the batch.yaml files process_batch can find for n jobs
Batches(n) ==
    {NewBatch(n)}
    \cup {InterruptedBatch(n, done, j) :
             done \in UNION {[1..d -> FinishedJobs] : d \in 0..(n-1)}, j \in LeftJobs}
    \cup {ReturnedBatch(done) : done \in [1..n -> FinishedJobs]}

NoBatch == [nobatch |-> TRUE]

\* no batch process
BatchIdle ==
    /\ batch_config = NoBatch /\ batch_yaml = NoBatch /\ job_yaml = <<>>
    /\ bpc = "none" /\ bj = 0 /\ bs = 0 /\ bhow = <<>> /\ bvisited = <<>>
    /\ bexecuted = <<>> /\ bpre = NoBatch
    /\ bended = "none"

(***************************************************************************)
(* The download cache /var/markethawk/_downloads/<youtube_id>/ that the    *)
(* job processes share.  A file is absent or has data: a sequence of       *)
(* chunks, chunk k of the video being the number k and 0 standing for a    *)
(* hole that a write beyond the end of the file leaves.                    *)
(***************************************************************************)
\* the job processes that work on the same youtube_id
Procs == {1, 2}

NoFile == [exists |-> FALSE, data |-> <<>>]

File(data) == [exists |-> TRUE, data |-> data]

\* the files of the cache directory step_download looks for, and the files
\* download_video writes (VideoSourceDownloader.input_dir)
CheckedPaths    == {"source.mp4", "metadata.json"}
DownloadedPaths == {"input/source.mp4", "input/metadata.json"}
CachePaths      == CheckedPaths \cup DownloadedPaths

\* the whole video, and the metadata the API returns for the id
WholeVideo == File([k \in 1..MaxChunks |-> k])
Metadata   == File(<<1>>)

EmptyCache == [path \in CachePaths |-> NoFile]

\* a cache directory that holds source.mp4 and metadata.json
FilledCache == [path \in CachePaths |->
                  IF path = "source.mp4" THEN WholeVideo
                  ELSE IF path = "metadata.json" THEN Metadata
                  ELSE NoFile]

\* f.write(chunk) at file position o (counted from 0) of a file with data
WriteAt(data, o, chunk) ==
    LET n == IF Len(data) > o THEN Len(data) ELSE o + 1
    IN  [i \in 1..n |-> IF i = o + 1 THEN chunk
                        ELSE IF i <= Len(data) THEN data[i]
                        ELSE 0]

\* no job process in step_download
CacheIdle ==
    /\ cache = EmptyCache /\ cpos = <<>> /\ coffset = <<>> /\ cprivate = <<>>
    /\ cwrites = <<>> /\ clate = <<>>

(***************************************************************************)
(* StateManager (lens/process_earnings.py): .state.json of a video id      *)
(* holds an entry per step; an entry is written as the status and the      *)
(* process that wrote it (0: an earlier process).                          *)
(***************************************************************************)
StateSteps == {"download", "parse", "transcribe"}

StateStatuses == {"completed", "failed"}

\* the state update_state starts from when there is no state file
FreshState == [steps |-> EmptyDict]

Entry(status, by) == [status |-> status, by |-> by]

\* state["steps"][step] = {...}: the entry of step set, the others kept
SetEntry(state, st, entry) ==
    [steps |-> [n \in DOMAIN state.steps \cup {st} |->
                   IF n = st THEN entry ELSE state.steps[n]]]

NoState == [nostate |-> TRUE]

\* no process in update_state
StateIdle ==
    /\ state_file = NoState /\ temp_file = NoState /\ lock = 0
    /\ spos = <<>> /\ sarg = <<>> /\ slocal = <<>> /\ sbefore = NoState

(***************************************************************************)
(* refine_timestamps.py: the approximate timestamp of a highlight is moved *)
(* to the place of the transcript where its keywords are spoken together.  *)
(* A text and a word are sequences of characters; times are in tenths of   *)
(* a second.                                                               *)
(***************************************************************************)
Digits == {"0", "1", "2", "3", "4", "5", "6", "7", "8", "9"}
Letters == {"a", "b", "c", "d", "e", "f", "g", "h", "i", "j", "k", "l", "m",
            "n", "o", "p", "q", "r", "s", "t", "u", "v", "w", "x", "y", "z"}
Capitals ==
    [A |-> "a", B |-> "b", C |-> "c", D |-> "d", E |-> "e", F |-> "f",
     G |-> "g", H |-> "h", I |-> "i", J |-> "j", K |-> "k", L |-> "l",
     M |-> "m", N |-> "n", O |-> "o", P |-> "p", Q |-> "q", R |-> "r",
     S |-> "s", T |-> "t", U |-> "u", V |-> "v", W |-> "w", X |-> "x",
     Y |-> "y", Z |-> "z"]

\* str.lower()
lower(t) == [i \in DOMAIN t |-> IF t[i] \in DOMAIN Capitals THEN Capitals[t[i]] ELSE t[i]]

\* str.strip()
RECURSIVE strip(_)
strip(t) ==
    IF t = <<>> THEN t
    ELSE IF t[1] = " " THEN strip(Tail(t))
    ELSE IF t[Len(t)] = " " THEN strip(SubSeq(t, 1, Len(t) - 1))
    ELSE t

\* the first n elements: s[:n]
Take(s, n) == SubSeq(s, 1, IF n < Len(s) THEN n ELSE Len(s))

\* the end of the run of digits that begins at position i of t
RECURSIVE DigitsEnd(_, _)
DigitsEnd(t, i) == IF i < Len(t) /\ t[i + 1] \in Digits THEN DigitsEnd(t, i + 1) ELSE i

\* re.findall(r'\d+(?:\.\d+)?', t), from position i on
RECURSIVE FindNumbers(_, _)
FindNumbers(t, i) ==
    IF i > Len(t) THEN <<>>
    ELSE IF t[i] \notin Digits THEN FindNumbers(t, i + 1)
    ELSE LET j == DigitsEnd(t, i)
             k == IF j + 2 <= Len(t) /\ t[j + 1] = "." /\ t[j + 2] \in Digits
                  THEN DigitsEnd(t, j + 2) ELSE j
         IN  <<SubSeq(t, i, k)>> \o FindNumbers(t, k + 1)

\* a character of \w or \s
WordOrSpace(c) == c \in Letters \cup Digits \cup {"_", " "}

\* re.sub(r'[^\w\s]', '', t)
Clean(t) == SelectSeq(t, WordOrSpace)

\* str.split(): the words between the blanks, from position i on, cur being
\* the word begun
RECURSIVE Split(_, _, _)
Split(t, i, cur) ==
    IF i > Len(t) THEN (IF cur = <<>> THEN <<>> ELSE <<cur>>)
    ELSE IF t[i] = " "
         THEN (IF cur = <<>> THEN <<>> ELSE <<cur>>) \o Split(t, i + 1, <<>>)
         ELSE Split(t, i + 1, Append(cur, t[i]))

stop_words ==
    {<<"t", "h", "e">>, <<"a">>, <<"a", "n">>, <<"a", "n", "d">>,
     <<"o", "r">>, <<"b", "u", "t">>, <<"i", "n">>, <<"o", "n">>,
     <<"a", "t">>, <<"t", "o">>, <<"f", "o", "r">>, <<"o", "f">>,
     <<"i", "s">>, <<"w", "a", "s">>, <<"a", "r", "e">>, <<"i", "t", "s">>,
     <<"w", "i", "t", "h">>, <<"f", "r", "o", "m">>, <<"t", "h", "i", "s">>,
     <<"t", "h", "a", "t">>, <<"n", "o", "w">>, <<"c", "a", "n">>,
     <<"r", "u", "n">>, <<"p", "a", "r", "t">>, <<"p", "e", "r">>,
     <<"n", "e", "w">>, <<"h", "p", "s">>, <<"h", "a", "s">>,
     <<"h", "a", "v", "e">>, <<"b", "e", "e", "n">>, <<"w", "e", "r", "e">>,
     <<"w", "i", "l", "l">>, <<"w", "o", "u", "l", "d">>,
     <<"c", "o", "u", "l", "d">>, <<"s", "h", "o", "u", "l", "d">>,
     <<"t", "h", "a", "n">>, <<"t", "h", "e", "n">>, <<"a", "l", "s", "o">>,
     <<"j", "u", "s", "t">>, <<"m", "o", "r", "e">>, <<"m", "o", "s", "t">>,
     <<"s", "o", "m", "e">>, <<"s", "u", "c", "h">>, <<"i", "n", "t", "o">>,
     <<"o", "v", "e", "r">>, <<"o", "n", "l", "y">>, <<"y", "e", "a", "r">>,
     <<"y", "e", "a", "r", "s">>}

IsContentWord(w) == w \notin stop_words /\ Len(w) >= 4
IsLongWord(w) == Len(w) >= 6
IsMediumWord(w) == 4 <= Len(w) /\ Len(w) < 6

\* "Remove duplicates while preserving order"
RECURSIVE Unique(_, _)
Unique(s, seen) ==
    IF s = <<>> THEN <<>>
    ELSE IF s[1] \in seen THEN Unique(Tail(s), seen)
    ELSE <<s[1]>> \o Unique(Tail(s), seen \cup {s[1]})

extract_keywords_from_highlight(h) ==
    LET text == lower(h.text)
        numbers == FindNumbers(text, 1)
        words == Split(Clean(text), 1, <<>>)
        content_words == SelectSeq(words, IsContentWord)
        long_words == SelectSeq(content_words, IsLongWord)
        medium_words == SelectSeq(content_words, IsMediumWord)
        keywords == Take(numbers, 3) \o Take(long_words, 4) \o Take(medium_words, 3)
    IN  Take(Unique(keywords, {}), 8)

number_words ==
    {<<"o", "n", "e">>, <<"t", "w", "o">>, <<"t", "h", "r", "e", "e">>,
     <<"f", "o", "u", "r">>, <<"f", "i", "v", "e">>, <<"s", "i", "x">>,
     <<"s", "e", "v", "e", "n">>, <<"e", "i", "g", "h", "t">>,
     <<"n", "i", "n", "e">>, <<"t", "e", "n">>}

is_number_keyword(keyword) ==
    (\E i \in DOMAIN keyword : keyword[i] \in Digits) \/ keyword \in number_words

\* "a in b" of two strings
In(a, b) == \E i \in 1..(Len(b) - Len(a) + 1) : SubSeq(b, i, i + Len(a) - 1) = a

\* w.startswith(p)
StartsWith(w, p) == Len(w) >= Len(p) /\ SubSeq(w, 1, Len(p)) = p

\* the test of one keyword against one word of the transcript
is_match(keyword, word_text) ==
    IF Len(keyword) >= 5 /\ Len(word_text) >= 5
    THEN In(keyword, word_text) \/ In(word_text, keyword)
    ELSE IF keyword = word_text THEN TRUE
    ELSE Len(keyword) >= 4 /\ StartsWith(word_text, Take(keyword, 4))

\* the matches of a word of the transcript with the keywords from
\* position k on
RECURSIVE WordMatches(_, _, _, _)
WordMatches(word_text, word_start, keywords, k) ==
    IF k > Len(keywords) THEN <<>>
    ELSE LET keyword == keywords[k]
         IN  (IF Len(keyword) > 2 /\ is_match(keyword, word_text)
              THEN <<[word |-> word_text, keyword |-> keyword, timestamp |-> word_start,
                      is_number |-> is_number_keyword(keyword)]>>
              ELSE <<>>) \o WordMatches(word_text, word_start, keywords, k + 1)

\* all_matches as the loops over the words and the keywords build it
RECURSIVE AllMatches(_, _, _)
AllMatches(words, keywords, i) ==
    IF i > Len(words) THEN <<>>
    ELSE WordMatches(strip(lower(words[i].word)), words[i].start, keywords, 1)
             \o AllMatches(words, keywords, i + 1)

\* m put into the sorted list s behind the elements that are not later
RECURSIVE InsertByTime(_, _)
InsertByTime(s, m) ==
    IF s = <<>> THEN <<m>>
    ELSE IF s[Len(s)].timestamp <= m.timestamp THEN Append(s, m)
    ELSE Append(InsertByTime(SubSeq(s, 1, Len(s) - 1), m), s[Len(s)])

\* all_matches.sort(key=lambda x: x['timestamp']), a stable sort
RECURSIVE SortByTime(_)
SortByTime(s) ==
    IF s = <<>> THEN <<>>
    ELSE InsertByTime(SortByTime(SubSeq(s, 1, Len(s) - 1)), s[Len(s)])

\* CLUSTER_WINDOW = 15 seconds
CLUSTER_WINDOW == 150
\* the 0.5 s added to the timestamp of the place found
BUFFER == 5

\* a grouping that measures the window from the match before
RECURSIVE Clusters_chained(_, _, _)
Clusters_chained(all_matches, i, current_cluster) ==
    IF i > Len(all_matches) THEN <<current_cluster>>
    ELSE IF all_matches[i].timestamp - all_matches[i - 1].timestamp <= CLUSTER_WINDOW
         THEN Clusters_chained(all_matches, i + 1, Append(current_cluster, all_matches[i]))
         ELSE <<current_cluster>> \o Clusters_chained(all_matches, i + 1, <<all_matches[i]>>)

\* the clusters of the sorted matches from position i on, current_cluster
\* being the cluster begun
RECURSIVE Clusters(_, _, _)
Clusters(all_matches, i, current_cluster) ==
    IF i > Len(all_matches) THEN <<current_cluster>>
    ELSE IF all_matches[i].timestamp - current_cluster[1].timestamp <= CLUSTER_WINDOW
         THEN Clusters(all_matches, i + 1, Append(current_cluster, all_matches[i]))
         ELSE <<current_cluster>> \o Clusters(all_matches, i + 1, <<all_matches[i]>>)

distinct_keywords(cluster) == {cluster[i].keyword : i \in DOMAIN cluster}

\* a score that counts the distinct keywords only
score_cluster_no_bonus(cluster) == 2 * Cardinality(distinct_keywords(cluster))

\* twice the score of a cluster: the number of distinct keywords, plus a
\* half if one of them is a number
score_cluster(cluster) ==
    2 * Cardinality(distinct_keywords(cluster))
        + (IF \E i \in DOMAIN cluster : cluster[i].is_number THEN 1 ELSE 0)

IsStrong(cluster) == score_cluster(cluster) >= 2 * 3
IsGood(cluster) == score_cluster(cluster) >= 2 * 2
IsNumberMatch(m) == m.is_number

\* max(clusters, key=score), which takes the last of the greatest ones
RECURSIVE max_takes_last(_)
max_takes_last(clusters) ==
    IF Len(clusters) = 1 THEN clusters[1]
    ELSE LET rest == max_takes_last(Tail(clusters))
         IN  IF score_cluster(clusters[1]) > score_cluster(rest) THEN clusters[1] ELSE rest

\* max(clusters, key=score): the first of the greatest ones
RECURSIVE max(_)
max(clusters) ==
    IF Len(clusters) = 1 THEN clusters[1]
    ELSE LET rest == max(Tail(clusters))
         IN  IF score_cluster(clusters[1]) >= score_cluster(rest) THEN clusters[1] ELSE rest

\* min(matches, key=timestamp): the first of the least ones
RECURSIVE min(_)
min(matches) ==
    IF Len(matches) = 1 THEN matches[1]
    ELSE LET rest == min(Tail(matches))
         IN  IF matches[1].timestamp <= rest.timestamp THEN matches[1] ELSE rest

\* what refine_timestamp_with_words returns, with the branch taken and the
\* keywords of the cluster its message lists
Refined(ts, how, cluster) ==
    [timestamp |-> ts, how |-> how, distinct |-> distinct_keywords(cluster)]

refine_timestamp_with_words(llm_timestamp, keywords, words) ==
    IF keywords = <<>> THEN Refined(llm_timestamp, "no_keywords", <<>>)
    ELSE LET all_matches == SortByTime(AllMatches(words, keywords, 1))
         IN  IF all_matches = <<>> THEN Refined(llm_timestamp, "no_matches", <<>>)
             ELSE LET clusters == Clusters(all_matches, 2, <<all_matches[1]>>)
                      strong_clusters == SelectSeq(clusters, IsStrong)
                      good_clusters == SelectSeq(clusters, IsGood)
                      number_matches == SelectSeq(all_matches, IsNumberMatch)
                  IN  IF strong_clusters # <<>>
                      THEN Refined(strong_clusters[1][1].timestamp + BUFFER, "strong",
                                   strong_clusters[1])
                      ELSE IF good_clusters # <<>>
                      THEN LET best_cluster == max(good_clusters)
                           IN  Refined(best_cluster[1].timestamp + BUFFER, "best",
                                       best_cluster)
                      ELSE IF number_matches # <<>>
                      THEN Refined(min(number_matches).timestamp + BUFFER, "number", <<>>)
                      ELSE Refined(llm_timestamp, "weak", <<>>)

NoStats == [highlights_refined |-> 0, highlights_unchanged |-> 0]

\* what a job record holds of the refine_timestamps step and its highlight
JobRecord(timestamp, status, step_stats) ==
    [timestamp |-> timestamp, status |-> status, stats |-> step_stats]

\* no job being refined
RefineIdle ==
    /\ highlight = [text |-> <<>>, timestamp |-> 0] /\ hpre = highlight
    /\ transcript = <<>> /\ returned = <<>> /\ stats = NoStats /\ rpos = "idle"
    /\ job_yaml_path = JobRecord(0, "pending", NoStats) /\ self_job = job_yaml_path

SideIdle == CacheIdle /\ StateIdle /\ RefineIdle

\* no call of the registry's functions made
RegistryIdle == handler_name = "" /\ handler = NotCalled /\ listing = EmptyDict

Init ==
    /\ workflow \in Workflows
    /\ disk \in NewJobs
    /\ Idle
    /\ expression = <<>> /\ result = Lit(<<>>) /\ message = NoMessage
    /\ STEP_HANDLERS = FullRegistry /\ RegistryIdle
    /\ BatchIdle
    /\ SideIdle

(***************************************************************************)
(* WorkflowOrchestrator.__init__ followed by the entry point's first       *)
(* statements.  The constructor loads job.yaml, takes the workflow and     *)
(* restores the context from the completed steps.                          *)
(***************************************************************************)
\* a constructor whose loop starts at the first step of the workflow
\* whatever step was named
Construct_from_first(m, f, first) ==
    /\ pc = "idle" /\ runs < MaxRuns /\ disk # Truncated
    /\ runs' = runs + 1
    /\ mode' = m /\ force' = f
    /\ outputs' = _restore_context_from_job(workflow, disk)
    /\ start_index' = first /\ idx' = 1
    /\ failed_steps' = 0
    /\ ended' = "running"
    /\ pre' = disk
    /\ visited' = <<>> /\ invoked' = <<>>
    /\ outcome' = NoSteps /\ cause' = NoSteps
    /\ UNCHANGED <<workflow, hres, rvVars, regVars, batchVars, sideVars, died>>

Construct(m, f, first) ==
    /\ pc = "idle" /\ runs < MaxRuns /\ disk # Truncated
    /\ runs' = runs + 1
    /\ mode' = m /\ force' = f
    /\ outputs' = _restore_context_from_job(workflow, disk)
    /\ start_index' = first /\ idx' = first
    /\ failed_steps' = 0
    /\ ended' = "running"
    /\ pre' = disk
    /\ visited' = <<>> /\ invoked' = <<>>
    /\ outcome' = NoSteps /\ cause' = NoSteps
    /\ UNCHANGED <<workflow, hres, rvVars, regVars, batchVars, sideVars, died>>

\* run_all up to and including the in-memory part of set_status("processing")
run_all ==
    /\ \E f \in BOOLEAN : Construct("run_all", f, 1)
    /\ job' = set_status(disk, "processing")
    /\ disk' = Truncated
    /\ pc' = "saving" /\ cont' = "execute"

\* run_step(step_name) for a step of the workflow
run_step ==
    /\ \E f \in BOOLEAN, i \in StepIdx : Construct("run_step", f, i)
    /\ job' = disk
    /\ pc' = "execute" /\ cont' = "none"
    /\ UNCHANGED disk

\* run_from_step(start_step_name) for a step of the workflow
run_from_step ==
    /\ \E f \in BOOLEAN, i \in StepIdx : Construct("run_from_step", f, i)
    /\ job' = disk
    /\ pc' = "execute" /\ cont' = "none"
    /\ UNCHANGED disk

\* run_step / run_from_step with a name that is no step of the workflow:
\* ValueError before any step is touched
UnknownStep ==
    /\ pc = "idle" /\ runs < MaxRuns /\ disk # Truncated
    /\ runs' = runs + 1
    /\ ended' = "raised"
    /\ \E m \in {"run_step", "run_from_step"} : mode' = m
    /\ pre' = disk
    /\ visited' = <<>> /\ invoked' = <<>> /\ outcome' = NoSteps /\ cause' = NoSteps
    /\ UNCHANGED <<workflow, disk, job, outputs, force, start_index, idx, failed_steps,
                   pc, cont, hres, rvVars, regVars, batchVars, sideVars, died>>

\* the constructor on a job.yaml that a crashed _save left truncated:
\* the document does not load as a job and construction fails
LoadTruncated ==
    /\ pc = "idle" /\ runs < MaxRuns /\ disk = Truncated
    /\ runs' = runs + 1
    /\ ended' = "load_failed"
    /\ UNCHANGED <<workflow, disk, job, outputs, force, mode, start_index, idx,
                   failed_steps, pc, cont, pre, visited, invoked, outcome, cause, hres,
                   rvVars, regVars, batchVars, sideVars, died>>

(***************************************************************************)
(* JobManager._save: open(job_file, 'w') truncates the file (done by the   *)
(* action that calls _save), yaml.dump then writes the whole record.       *)
(***************************************************************************)
_save ==
    /\ pc = "saving"
    /\ disk' = job
    /\ pc' = cont /\ cont' = "none"
    /\ UNCHANGED <<workflow, job, outputs, force, mode, start_index, idx, failed_steps,
                   runs, ended, pre, visited, invoked, outcome, cause, hres, rvVars, regVars, batchVars, sideVars, died>>

(***************************************************************************)
(* WorkflowOrchestrator._execute_step                                      *)
(***************************************************************************)
step == workflow[idx]

\* the skip check says skip: return True
SkipStep ==
    /\ pc = "execute"
    /\ _should_skip_step(step, job, force)
    /\ visited' = Append(visited, idx)
    /\ outcome' = [outcome EXCEPT ![idx] = "skipped"]
    /\ pc' = "step_true"
    /\ UNCHANGED <<workflow, disk, job, outputs, force, mode, start_index, idx,
                   failed_steps, cont, runs, ended, pre, invoked, cause, hres, rvVars, regVars, batchVars, sideVars, died>>

\* not skipped: update_step(step_name, status='in_progress', started_at=...)
MarkInProgress ==
    /\ pc = "execute"
    /\ ~_should_skip_step(step, job, force)
    /\ visited' = Append(visited, idx)
    /\ job' = update_step(job, step.name, "in_progress", [started_at |-> "t"])
    /\ disk' = Truncated
    /\ pc' = "saving" /\ cont' = "in_progress"
    /\ UNCHANGED <<workflow, outputs, force, mode, start_index, idx, failed_steps,
                   runs, ended, pre, invoked, outcome, cause, hres, rvVars, regVars, batchVars, sideVars, died>>

\* an except branch that never raises
Failed_never_raises(why) ==
    /\ job' = update_step(job, step.name, "failed",
                          [error |-> "Failed: " \o why, failed_at |-> "t"])
    /\ disk' = Truncated
    /\ outcome' = [outcome EXCEPT ![idx] = "failed"]
    /\ cause' = [cause EXCEPT ![idx] = why]
    /\ pc' = "saving"
    /\ cont' = "step_false"

\* an except branch that raises before the record is saved
Failed_raise_first(why) ==
    /\ job' = update_step(job, step.name, "failed",
                          [error |-> "Failed: " \o why, failed_at |-> "t"])
    /\ disk' = disk
    /\ outcome' = [outcome EXCEPT ![idx] = "failed"]
    /\ cause' = [cause EXCEPT ![idx] = why]
    /\ pc' = IF step.required THEN "step_raised" ELSE "step_false"
    /\ cont' = "none"

\* the except branch: update_step(step_name, status='failed', error=...,
\* failed_at=...), then raise if required, return False if not
Failed(why) ==
    /\ job' = update_step(job, step.name, "failed",
                          [error |-> "Failed: " \o why, failed_at |-> "t"])
    /\ disk' = Truncated
    /\ outcome' = [outcome EXCEPT ![idx] = "failed"]
    /\ cause' = [cause EXCEPT ![idx] = why]
    /\ pc' = "saving"
    /\ cont' = IF step.required THEN "step_raised" ELSE "step_false"

\* _resolve_inputs raises
ResolveFails ==
    /\ pc = "in_progress"
    /\ ~_resolve_inputs_ok(step, job, outputs)
    /\ Failed("inputs")
    /\ UNCHANGED <<workflow, outputs, force, mode, start_index, idx, failed_steps,
                   runs, ended, pre, visited, invoked, hres, rvVars, regVars, batchVars, sideVars, died>>

\* inputs resolved, get_handler raises
HandlerNotFound ==
    /\ pc = "in_progress"
    /\ _resolve_inputs_ok(step, job, outputs)
    /\ get_handler(STEP_HANDLERS, step.handler).tag = "ValueError"
    /\ Failed("get_handler")
    /\ UNCHANGED <<workflow, outputs, force, mode, start_index, idx, failed_steps,
                   runs, ended, pre, visited, invoked, hres, rvVars, regVars, batchVars, sideVars, died>>

\* inputs resolved, handler found and called
InvokeHandler ==
    /\ pc = "in_progress"
    /\ _resolve_inputs_ok(step, job, outputs)
    /\ get_handler(STEP_HANDLERS, step.handler).tag = "handler"
    /\ invoked' = Append(invoked, idx)
    /\ pc' = "handler"
    /\ UNCHANGED <<workflow, disk, job, outputs, force, mode, start_index, idx,
                   failed_steps, cont, runs, ended, pre, visited, outcome, cause, hres,
                   rvVars, regVars, batchVars, sideVars, died>>

\* a completion that merges any result into the record, a key named
\* status included
HandlerReturns_merges_any ==
    /\ pc = "handler"
    /\ \E r \in HandlerResults(step.handler) :
        /\ hres' = [hres EXCEPT ![idx] = r]
        /\ outputs' = _register_outputs(outputs, step, r)
        /\ job' = update_step(job, step.name, "completed",
                              Merge([completed_at |-> "t"], r))
        /\ disk' = Truncated
        /\ outcome' = [outcome EXCEPT ![idx] = "completed"]
        /\ pc' = "saving" /\ cont' = "step_true"
        /\ UNCHANGED cause
    /\ UNCHANGED <<workflow, force, mode, start_index, idx, failed_steps,
                   runs, ended, pre, visited, invoked, rvVars, regVars, batchVars, sideVars, died>>

\* the handler returns a result: outputs are registered, then
\* update_step(step_name, status='completed', completed_at=..., **result)
HandlerReturns ==
    /\ pc = "handler"
    /\ \E r \in HandlerResults(step.handler) :
        /\ hres' = [hres EXCEPT ![idx] = r]
        /\ outputs' = _register_outputs(outputs, step, r)
        /\ IF (DOMAIN r) \cap ReservedKeys # {}
           THEN Failed("TypeError")
           ELSE /\ job' = update_step(job, step.name, "completed",
                                      Merge([completed_at |-> "t"], r))
                /\ disk' = Truncated
                /\ outcome' = [outcome EXCEPT ![idx] = "completed"]
                /\ pc' = "saving" /\ cont' = "step_true"
                /\ UNCHANGED cause
    /\ UNCHANGED <<workflow, force, mode, start_index, idx, failed_steps,
                   runs, ended, pre, visited, invoked, rvVars, regVars, batchVars, sideVars, died>>

\* the handler raises
HandlerRaises ==
    /\ pc = "handler"
    /\ Failed("handler")
    /\ UNCHANGED <<workflow, outputs, force, mode, start_index, idx, failed_steps,
                   runs, ended, pre, visited, invoked, hres, rvVars, regVars, batchVars, sideVars, died>>

(***************************************************************************)
(* The entry points' loops around _execute_step.  pc is "step_true" or     *)
(* "step_false" when the call returned that value and "step_raised" when   *)
(* it raised.                                                              *)
(***************************************************************************)
\* run_all's closing statements: set_status by failed_steps
Finish(failed) ==
    /\ failed_steps' = failed
    /\ job' = set_status(job, IF failed = 0 THEN "completed" ELSE "failed")
    /\ disk' = Truncated
    /\ pc' = "saving" /\ cont' = "return"
    /\ UNCHANGED idx

run_all_loop ==
    /\ mode = "run_all" /\ pc \in {"step_true", "step_false"}
    /\ LET failed == IF pc = "step_false" THEN failed_steps + 1 ELSE failed_steps
       IN  IF idx < Len(workflow)
           THEN /\ failed_steps' = failed
                /\ idx' = idx + 1
                /\ pc' = "execute"
                /\ UNCHANGED <<disk, job, cont>>
           ELSE Finish(failed)
    /\ UNCHANGED <<workflow, outputs, force, mode, start_index, runs, ended, pre,
                   visited, invoked, outcome, cause, hres, rvVars, regVars, batchVars, sideVars, died>>

\* except Exception: failed_steps += 1; break
run_all_break ==
    /\ mode = "run_all" /\ pc = "step_raised"
    /\ Finish(failed_steps + 1)
    /\ UNCHANGED <<workflow, outputs, force, mode, start_index, runs, ended, pre,
                   visited, invoked, outcome, cause, hres, rvVars, regVars, batchVars, sideVars, died>>

run_from_step_loop ==
    /\ mode = "run_from_step" /\ pc \in {"step_true", "step_false"}
    /\ IF idx < Len(workflow)
       THEN idx' = idx + 1 /\ pc' = "execute"
       ELSE idx' = idx /\ pc' = "return"
    /\ UNCHANGED <<workflow, disk, job, outputs, force, mode, start_index, failed_steps,
                   cont, runs, ended, pre, visited, invoked, outcome, cause, hres,
                   rvVars, regVars, batchVars, sideVars, died>>

\* except Exception: break
run_from_step_break ==
    /\ mode = "run_from_step" /\ pc = "step_raised"
    /\ pc' = "return"
    /\ UNCHANGED <<workflow, disk, job, outputs, force, mode, start_index, idx,
                   failed_steps, cont, runs, ended, pre, visited, invoked, outcome,
                   cause, hres, rvVars, regVars, batchVars, sideVars, died>>

run_step_return ==
    /\ mode = "run_step" /\ pc \in {"step_true", "step_false"}
    /\ pc' = "return"
    /\ UNCHANGED <<workflow, disk, job, outputs, force, mode, start_index, idx,
                   failed_steps, cont, runs, ended, pre, visited, invoked, outcome,
                   cause, hres, rvVars, regVars, batchVars, sideVars, died>>

\* the process is gone: its memory with it
Exit(how) ==
    /\ pc' = "idle" /\ cont' = "none"
    /\ job' = NoJob /\ outputs' = EmptyDict
    /\ idx' = 0 /\ failed_steps' = 0
    /\ ended' = how
    /\ UNCHANGED <<workflow, disk, force, mode, start_index, runs, pre, visited,
                   invoked, outcome, cause, hres, rvVars, regVars, batchVars, sideVars, died>>

\* run_step does not catch: the exception of a required step leaves it
run_step_raise == mode = "run_step" /\ pc = "step_raised" /\ Exit("raised")

\* the entry point returns to the caller
Return == pc = "return" /\ Exit("returned")

\* the process is killed, at any point of the run; nobody is left to
\* observe what the run had done, only job.yaml remains
Crash ==
    /\ pc \notin {"idle", "resolve", "resolved"}
    /\ pc' = "idle" /\ cont' = "none"
    /\ job' = NoJob /\ outputs' = EmptyDict
    /\ force' = FALSE /\ mode' = "none" /\ start_index' = 0
    /\ idx' = 0 /\ failed_steps' = 0
    /\ ended' = "crashed"
    /\ pre' = NoJob /\ visited' = <<>> /\ invoked' = <<>>
    /\ outcome' = NoSteps /\ cause' = NoSteps
    /\ died' = IF pc = "handler" THEN idx ELSE 0
    /\ UNCHANGED <<workflow, disk, runs, hres, rvVars, regVars, batchVars, sideVars>>

Next ==
    \/ run_all \/ run_step \/ run_from_step \/ UnknownStep \/ LoadTruncated
    \/ _save
    \/ SkipStep \/ MarkInProgress \/ ResolveFails \/ HandlerNotFound \/ InvokeHandler
    \/ HandlerReturns \/ HandlerRaises
    \/ run_all_loop \/ run_all_break
    \/ run_from_step_loop \/ run_from_step_break
    \/ run_step_return \/ run_step_raise
    \/ Return \/ Crash

Spec == Init /\ [][Next]_vars

(***************************************************************************)
(* main(): the exit code of the command.  main calls the entry point and   *)
(* returns; it calls sys.exit only for a missing job file.  The process    *)
(* exits 0 when main returns, 1 when an exception leaves main, and is      *)
(* killed by a signal (code above 128) when it crashes; -1 stands for a    *)
(* command that has not ended.                                             *)
(***************************************************************************)
exit_code ==
    IF pc # "idle" \/ ended \in {"none", "running"} THEN -1
    ELSE IF ended = "returned" THEN 0
    ELSE IF ended \in {"raised", "load_failed"} THEN 1
    ELSE 137

(***************************************************************************)
(* resolve_variable on its own: any expression of at most MaxExprLen       *)
(* tokens, resolved in the context of an orchestrator constructed for a    *)
(* job whose download step has completed.                                  *)
(***************************************************************************)
SeqsUpTo(n) == UNION {[1..m -> Tokens] : m \in 0..n}

ResolveJob ==
    [job_id |-> "job_1", workflow |-> "wf", status |-> "processing",
     input |-> [type |-> "youtube_url", value |-> "u1"],
     processing |-> [download |-> [status |-> "completed", started_at |-> "t",
                                   completed_at |-> "t", value |-> "a"]]]

InitResolve ==
    /\ workflow = <<StepDownload(TRUE), StepTranscribe(TRUE, RefDownloadValue),
                    StepNotify(TRUE, NoCondition)>>
    /\ disk = ResolveJob
    /\ job = ResolveJob
    /\ outputs = _restore_context_from_job(workflow, ResolveJob)
    /\ force = FALSE /\ mode = "none"
    /\ start_index = 0 /\ idx = 0 /\ failed_steps = 0 /\ pc = "resolve" /\ cont = "none"
    /\ runs = 0 /\ ended = "none" /\ pre = NoJob /\ visited = <<>> /\ invoked = <<>>
    /\ outcome = NoSteps /\ cause = NoSteps
    /\ hres = [i \in {1, 2, 3} |-> NoResult]
    /\ died = 0
    /\ \E head \in SeqsUpTo(3), tail \in SeqsUpTo(MaxExprLen - 3) :
           expression = head \o tail
    /\ result = Lit(<<>>) /\ message = NoMessage
    /\ STEP_HANDLERS = FullRegistry /\ RegistryIdle
    /\ BatchIdle
    /\ SideIdle

Resolve ==
    /\ pc = "resolve"
    /\ result' = resolve_variable(expression, job, outputs)
    /\ message' = resolve_variable_message(expression, job, outputs)
    /\ pc' = "resolved"
    /\ UNCHANGED <<workflow, disk, job, outputs, force, mode, start_index, idx,
                   failed_steps, cont, runs, ended, pre, visited, invoked, outcome,
                   cause, hres, died, expression, regVars, batchVars, sideVars>>

NextResolve == Resolve

SpecResolve == InitResolve /\ [][NextResolve]_vars

(***************************************************************************)
(* The registry on its own: any registry the import can build, and the     *)
(* calls get_handler(handler_name) and list_handlers().                    *)
(***************************************************************************)
InitRegistry ==
    /\ workflow = <<StepDownload(TRUE), StepTranscribe(TRUE, RefDownloadValue),
                    StepNotify(TRUE, NoCondition)>>
    /\ disk = ResolveJob
    /\ Idle
    /\ expression = <<>> /\ result = Lit(<<>>) /\ message = NoMessage
    /\ STEP_HANDLERS \in Registries
    /\ RegistryIdle
    /\ BatchIdle
    /\ SideIdle

call_get_handler ==
    /\ pc = "idle" /\ handler = NotCalled
    /\ \E name \in HandlerIds \cup {UnregisteredId} :
        /\ handler_name' = name
        /\ handler' = get_handler(STEP_HANDLERS, name)
    /\ UNCHANGED <<wfVars, rvVars, batchVars, sideVars, STEP_HANDLERS, listing>>

call_list_handlers ==
    /\ pc = "idle" /\ listing = EmptyDict
    /\ listing' = list_handlers(STEP_HANDLERS)
    /\ UNCHANGED <<wfVars, rvVars, batchVars, sideVars, STEP_HANDLERS, handler_name, handler>>

NextRegistry == call_get_handler \/ call_list_handlers

SpecRegistry == InitRegistry /\ [][NextRegistry]_vars

(***************************************************************************)
(* A batch run: BatchProcessor(batch_yaml).process_batch() on a batch of   *)
(* up to MaxJobs jobs, as batch_setup created it or as an earlier run that *)
(* returned or was interrupted left it.  save_batch_config is part of the  *)
(* action that calls it (batch_yaml' = batch_config').                     *)
(***************************************************************************)
InitBatch ==
    /\ workflow = <<StepDownload(TRUE), StepTranscribe(TRUE, RefDownloadValue),
                    StepNotify(TRUE, NoCondition)>>
    /\ disk = ResolveJob
    /\ Idle
    /\ expression = <<>> /\ result = Lit(<<>>) /\ message = NoMessage
    /\ STEP_HANDLERS = FullRegistry /\ RegistryIdle
    /\ SideIdle
    /\ \E n \in 1..MaxJobs :
        /\ batch_yaml \in Batches(n)
        /\ job_yaml = [i \in 1..n |-> JobYamlOf(batch_yaml.jobs[i])]
        /\ bhow = [i \in 1..n |-> "none"]
        /\ bexecuted = [i \in 1..n |-> {}]
    /\ batch_config = batch_yaml
    /\ bpre = [batch |-> batch_yaml, job_yaml |-> job_yaml]
    /\ bpc = "loaded" /\ bj = 0 /\ bs = 0 /\ bvisited = <<>> /\ bended = "none"

bjob == batch_config.jobs[bj]

bstep == StepNames[bs]

\* batch_config with job bj replaced by j, and the same saved
SaveJob(j) ==
    /\ batch_config' = [batch_config EXCEPT !.jobs[bj] = j]
    /\ batch_yaml' = [batch_config EXCEPT !.jobs[bj] = j]

\* update_job_yaml: job.yaml of job bj rewritten from job j
WriteJobYaml(j) == job_yaml' = [job_yaml EXCEPT ![bj] = j.steps]

\* process_batch up to the loop: status processing, saved
process_batch ==
    /\ bpc = "loaded"
    /\ batch_config' = [batch_config EXCEPT !.status = "processing"]
    /\ batch_yaml' = [batch_config EXCEPT !.status = "processing"]
    /\ bj' = 1 /\ bpc' = "loop"
    /\ UNCHANGED <<wfVars, rvVars, regVars, sideVars, bpre, job_yaml, bs, bhow, bvisited, bexecuted,
                   bended>>

\* a job that is completed or skipped: continue
SkipJob ==
    /\ bpc = "loop" /\ bj <= Len(batch_config.jobs)
    /\ bjob.status \in {"completed", "skipped"}
    /\ bj' = bj + 1
    /\ UNCHANGED <<wfVars, rvVars, regVars, sideVars, bpre, batch_config, batch_yaml, job_yaml, bpc, bs,
                   bhow, bvisited, bexecuted, bended>>

\* a process_job that does not read an existing job.yaml
process_job_ignores_job_yaml ==
    /\ bpc = "loop" /\ bj <= Len(batch_config.jobs)
    /\ bjob.status \notin {"completed", "skipped"}
    /\ SaveJob([bjob EXCEPT !.status = "processing",
                            !.steps = IF @ = EmptyDict THEN PendingSteps ELSE @])
    /\ job_yaml' = IF job_yaml[bj] = Absent
                   THEN [job_yaml EXCEPT ![bj] = PendingSteps]
                   ELSE job_yaml
    /\ bvisited' = Append(bvisited, bj)
    /\ bs' = 1 /\ bpc' = "step"
    /\ UNCHANGED <<wfVars, rvVars, regVars, sideVars, bpre, bj, bhow, bexecuted, bended>>

\* process_job up to the first step: status processing, steps given if
\* absent, saved; job.yaml created, or its processing section taken over
process_job ==
    /\ bpc = "loop" /\ bj <= Len(batch_config.jobs)
    /\ bjob.status \notin {"completed", "skipped"}
    /\ LET j1 == [bjob EXCEPT !.status = "processing",
                              !.steps = IF @ = EmptyDict THEN PendingSteps ELSE @]
           j2 == IF job_yaml[bj] = Absent THEN j1
                 ELSE [j1 EXCEPT !.steps = Merge(@, job_yaml[bj])]
       IN  /\ batch_config' = [batch_config EXCEPT !.jobs[bj] = j2]
           /\ batch_yaml' = [batch_config EXCEPT !.jobs[bj] = j1]
           /\ job_yaml' = IF job_yaml[bj] = Absent
                          THEN [job_yaml EXCEPT ![bj] = j1.steps]
                          ELSE job_yaml
    /\ bvisited' = Append(bvisited, bj)
    /\ bs' = 1 /\ bpc' = "step"
    /\ UNCHANGED <<wfVars, rvVars, regVars, sideVars, bpre, bj, bhow, bexecuted, bended>>

\* "if job['steps'][name] != 'completed'" is false: on to the next step
StepAlreadyCompleted ==
    /\ bpc = "step" /\ bjob.steps[bstep] = "completed"
    /\ IF bs < Len(StepNames) THEN bs' = bs + 1 /\ bpc' = "step"
       ELSE bs' = bs /\ bpc' = "all_steps"
    /\ UNCHANGED <<wfVars, rvVars, regVars, sideVars, bpre, batch_config, batch_yaml, job_yaml, bj, bhow,
                   bvisited, bexecuted, bended>>

\* step_<name> up to its work: update_job_status(job, name, 'processing')
StepBegins ==
    /\ bpc = "step" /\ bjob.steps[bstep] # "completed"
    /\ SaveJob(update_job_status(bjob, bstep, "processing"))
    /\ bexecuted' = [bexecuted EXCEPT ![bj] = @ \cup {bstep}]
    /\ bpc' = "in_step"
    /\ UNCHANGED <<wfVars, rvVars, regVars, sideVars, bpre, job_yaml, bj, bs, bhow, bvisited, bended>>

\* the step's work succeeded: update_job_status(job, name, 'completed'),
\* return True, update_job_yaml
StepSucceeds ==
    /\ bpc = "in_step"
    /\ LET j == update_job_status(bjob, bstep, "completed")
       IN  SaveJob(j) /\ WriteJobYaml(j)
    /\ IF bs < Len(StepNames) THEN bs' = bs + 1 /\ bpc' = "step"
       ELSE bs' = bs /\ bpc' = "all_steps"
    /\ UNCHANGED <<wfVars, rvVars, regVars, sideVars, bpre, bj, bhow, bvisited, bexecuted, bended>>

\* a failing step that records the step's status and leaves the job's
StepFails_step_only ==
    /\ bpc = "in_step" /\ bstep # "validate"
    /\ LET j == [bjob EXCEPT !.steps[bstep] = "failed"]
       IN  SaveJob(j) /\ WriteJobYaml(j)
    /\ bhow' = [bhow EXCEPT ![bj] = "failed"]
    /\ bpc' = "job_done"
    /\ UNCHANGED <<wfVars, rvVars, regVars, sideVars, bpre, bj, bs, bvisited, bexecuted, bended>>

\* the step's work failed: update_job_status(job, name, 'failed', error),
\* return False; process_job: update_job_yaml, return False
StepFails ==
    /\ bpc = "in_step" /\ bstep # "validate"
    /\ LET j == update_job_status(bjob, bstep, "failed")
       IN  SaveJob(j) /\ WriteJobYaml(j)
    /\ bhow' = [bhow EXCEPT ![bj] = "failed"]
    /\ bpc' = "job_done"
    /\ UNCHANGED <<wfVars, rvVars, regVars, sideVars, bpre, bj, bs, bvisited, bexecuted, bended>>

RECURSIVE MarkSkipped(_, _)
\* update_job_status(job, name, 'skipped') for each name of the sequence
MarkSkipped(j, names) ==
    IF names = <<>> THEN j
    ELSE MarkSkipped(update_job_status(j, Head(names), "skipped"), Tail(names))

\* step_validate on a video that is no earnings call: validate and the
\* steps after it skipped, job status skipped, return False; process_job:
\* update_job_yaml, return True
ValidateSkips ==
    /\ bpc = "in_step" /\ bstep = "validate"
    /\ LET j1 == MarkSkipped(bjob, <<"validate", "fuzzy_match", "extract_audio",
                                     "upload_r2", "update_db">>)
           j2 == [j1 EXCEPT !.status = "skipped"]
       IN  SaveJob(j2) /\ WriteJobYaml(j2)
    /\ bhow' = [bhow EXCEPT ![bj] = "skipped"]
    /\ bpc' = "job_done"
    /\ UNCHANGED <<wfVars, rvVars, regVars, sideVars, bpre, bj, bs, bvisited, bexecuted, bended>>

\* process_job after the last step: status completed, update_job_yaml,
\* save, return True
JobCompletes ==
    /\ bpc = "all_steps"
    /\ LET j == [bjob EXCEPT !.status = "completed"]
       IN  SaveJob(j) /\ WriteJobYaml(j)
    /\ bhow' = [bhow EXCEPT ![bj] = "completed"]
    /\ bpc' = "job_done"
    /\ UNCHANGED <<wfVars, rvVars, regVars, sideVars, bpre, bj, bs, bvisited, bexecuted, bended>>

\* an except branch that leaves the job as it is and ends the loop
JobRaises_aborts ==
    /\ bpc = "in_step"
    /\ bhow' = [bhow EXCEPT ![bj] = "raised"]
    /\ bj' = Len(batch_config.jobs) + 1
    /\ bpc' = "loop"
    /\ UNCHANGED <<wfVars, rvVars, regVars, sideVars, bpre, batch_config, batch_yaml, job_yaml, bs,
                   bvisited, bexecuted, bended>>

\* an exception leaves a step function and process_job:
\* except Exception: job['status'] = 'failed', save
JobRaises ==
    /\ bpc = "in_step"
    /\ SaveJob([bjob EXCEPT !.status = "failed"])
    /\ bhow' = [bhow EXCEPT ![bj] = "raised"]
    /\ bpc' = "job_done"
    /\ UNCHANGED <<wfVars, rvVars, regVars, sideVars, bpre, job_yaml, bj, bs, bvisited, bexecuted,
                   bended>>

\* KeyboardInterrupt inside process_job: job['status'] = 'pending', save,
\* raise
Interrupt ==
    /\ bpc \in {"step", "in_step", "all_steps"}
    /\ SaveJob([bjob EXCEPT !.status = "pending"])
    /\ bhow' = [bhow EXCEPT ![bj] = "interrupted"]
    /\ bpc' = "ended" /\ bended' = "interrupted"
    /\ UNCHANGED <<wfVars, rvVars, regVars, sideVars, bpre, job_yaml, bj, bs, bvisited, bexecuted>>

\* KeyboardInterrupt after the step function's
\* update_job_status(job, name, 'completed') and before process_job's
\* update_job_yaml: batch.yaml has the step completed, job.yaml is not
\* rewritten; then as Interrupt
InterruptBeforeJobYaml ==
    /\ bpc = "in_step"
    /\ SaveJob([update_job_status(bjob, bstep, "completed") EXCEPT !.status = "pending"])
    /\ bhow' = [bhow EXCEPT ![bj] = "interrupted"]
    /\ bpc' = "ended" /\ bended' = "interrupted"
    /\ UNCHANGED <<wfVars, rvVars, regVars, sideVars, bpre, job_yaml, bj, bs, bvisited, bexecuted>>

\* an exception leaves process_job and KeyboardInterrupt arrives in the
\* except Exception branch, before its job['status'] = 'failed' (during
\* self.log): no branch of the try statement handles it, nothing is saved
InterruptInHandler ==
    /\ bpc = "in_step"
    /\ bhow' = [bhow EXCEPT ![bj] = "raised_interrupted"]
    /\ bpc' = "ended" /\ bended' = "interrupted"
    /\ UNCHANGED <<wfVars, rvVars, regVars, sideVars, bpre, batch_config, batch_yaml, job_yaml, bj, bs,
                   bvisited, bexecuted>>

\* a loop that goes on to the next job without update_batch_stats
AfterJob_stale_stats ==
    /\ bpc = "job_done"
    /\ bj' = bj + 1 /\ bpc' = "loop"
    /\ UNCHANGED <<wfVars, rvVars, regVars, sideVars, bpre, batch_config, batch_yaml, job_yaml, bs, bhow,
                   bvisited, bexecuted, bended>>

\* after the try statement: update_batch_stats, next job
AfterJob ==
    /\ bpc = "job_done"
    /\ batch_config' = [batch_config EXCEPT !.stats = BatchStats(batch_config.jobs)]
    /\ batch_yaml' = [batch_config EXCEPT !.stats = BatchStats(batch_config.jobs)]
    /\ bj' = bj + 1 /\ bpc' = "loop"
    /\ UNCHANGED <<wfVars, rvVars, regVars, sideVars, bpre, job_yaml, bs, bhow, bvisited, bexecuted,
                   bended>>

\* the loop is over: status completed, save, update_batch_stats, return
BatchComplete ==
    /\ bpc = "loop" /\ bj > Len(batch_config.jobs)
    /\ LET c == [batch_config EXCEPT !.status = "completed",
                                     !.stats = BatchStats(batch_config.jobs)]
       IN  batch_config' = c /\ batch_yaml' = c
    /\ bpc' = "ended" /\ bended' = "returned"
    /\ UNCHANGED <<wfVars, rvVars, regVars, sideVars, bpre, job_yaml, bj, bs, bhow, bvisited, bexecuted>>

NextBatch ==
    \/ process_batch \/ SkipJob \/ process_job
    \/ StepAlreadyCompleted \/ StepBegins \/ StepSucceeds \/ StepFails \/ ValidateSkips
    \/ JobCompletes \/ JobRaises \/ Interrupt \/ InterruptBeforeJobYaml
    \/ InterruptInHandler \/ AfterJob \/ BatchComplete

SpecBatch == InitBatch /\ [][NextBatch]_vars

\* the exit status of the batch command (main: exit(main())): 0 when
\* process_batch returned, that of an uncaught KeyboardInterrupt when it
\* propagated one; -1 stands for a process that has not exited
batch_exit_code ==
    IF bended = "returned" THEN 0
    ELSE IF bended = "interrupted" THEN 130
    ELSE -1

(***************************************************************************)
(* BatchProcessor.step_download of two job processes for the same          *)
(* youtube_id, down to download_video and the writes of                    *)
(* VideoSourceDownloader.download_from_youtube and _download_file.  The    *)
(* cache directory is empty at first, or holds source.mp4 and              *)
(* metadata.json (nothing of this code writes these two paths: they are    *)
(* files put there by other means).                                        *)
(***************************************************************************)
\* no orchestrator, registry or batch process
OthersIdle ==
    /\ workflow = <<StepDownload(TRUE), StepTranscribe(TRUE, RefDownloadValue),
                    StepNotify(TRUE, NoCondition)>>
    /\ disk = ResolveJob
    /\ Idle
    /\ expression = <<>> /\ result = Lit(<<>>) /\ message = NoMessage
    /\ STEP_HANDLERS = FullRegistry /\ RegistryIdle
    /\ BatchIdle

InitCache ==
    /\ OthersIdle /\ StateIdle /\ RefineIdle
    /\ cache \in {EmptyCache, FilledCache}
    /\ cpos = [p \in Procs |-> "start"]
    /\ coffset = [p \in Procs |-> 0]
    /\ cprivate = [p \in Procs |-> [video |-> NoFile, metadata |-> NoFile]]
    /\ cwrites = <<>>
    /\ clate = [p \in Procs |-> FALSE]

\* the processes that have written to a file of the cache
Writers == {cwrites[i].by : i \in DOMAIN cwrites}

\* a write of process p to the cache file path
Written(p, path) == cwrites' = Append(cwrites, [by |-> p, path |-> path])

\* "if cache_video_path.exists() and cache_metadata_path.exists()"
CheckCache(p) ==
    /\ cpos[p] = "start"
    /\ cpos' = [cpos EXCEPT ![p] = IF \A path \in CheckedPaths : cache[path].exists
                                   THEN "cached" ELSE "not_cached"]
    /\ clate' = [clate EXCEPT ![p] = \E q \in Procs \ {p} :
                                        q \in Writers /\ cpos[q] \in {"downloaded", "done"}]
    /\ UNCHANGED <<wfVars, rvVars, regVars, batchVars, stateVars, refVars, cache, coffset, cprivate,
                   cwrites>>

\* found in the cache: the two files copied into the job directory
CopyFromCache(p) ==
    /\ cpos[p] = "cached"
    /\ cprivate' = [cprivate EXCEPT ![p] = [video    |-> cache["source.mp4"],
                                            metadata |-> cache["metadata.json"]]]
    /\ cpos' = [cpos EXCEPT ![p] = "done"]
    /\ UNCHANGED <<wfVars, rvVars, regVars, batchVars, stateVars, refVars, cache, coffset, cwrites,
                   clate>>

\* download_from_youtube: the API's answer written to input/metadata.json
SaveMetadata(p) ==
    /\ cpos[p] = "not_cached"
    /\ cache' = [cache EXCEPT !["input/metadata.json"] = Metadata]
    /\ Written(p, "input/metadata.json")
    /\ cpos' = [cpos EXCEPT ![p] = "metadata_saved"]
    /\ UNCHANGED <<wfVars, rvVars, regVars, batchVars, stateVars, refVars, coffset, cprivate, clate>>

\* _download_file: open(output_path, "wb") empties input/source.mp4
OpenVideo(p) ==
    /\ cpos[p] = "metadata_saved"
    /\ cache' = [cache EXCEPT !["input/source.mp4"] = File(<<>>)]
    /\ Written(p, "input/source.mp4")
    /\ coffset' = [coffset EXCEPT ![p] = 0]
    /\ cpos' = [cpos EXCEPT ![p] = "writing"]
    /\ UNCHANGED <<wfVars, rvVars, regVars, batchVars, stateVars, refVars, cprivate, clate>>

\* _download_file: f.write(chunk) at the file position of this process
WriteChunk(p) ==
    /\ cpos[p] = "writing" /\ coffset[p] < MaxChunks
    /\ cache' = [cache EXCEPT !["input/source.mp4"] =
                    File(WriteAt(@.data, coffset[p], coffset[p] + 1))]
    /\ Written(p, "input/source.mp4")
    /\ coffset' = [coffset EXCEPT ![p] = @ + 1]
    /\ UNCHANGED <<wfVars, rvVars, regVars, batchVars, stateVars, refVars, cpos, cprivate, clate>>

\* the last chunk is written: the file is closed, download_video returns
CloseVideo(p) ==
    /\ cpos[p] = "writing" /\ coffset[p] = MaxChunks
    /\ cpos' = [cpos EXCEPT ![p] = "downloaded"]
    /\ UNCHANGED <<wfVars, rvVars, regVars, batchVars, stateVars, refVars, cache, coffset, cprivate,
                   cwrites, clate>>

\* the files download_video named copied into the job directory
CopyDownloaded(p) ==
    /\ cpos[p] = "downloaded"
    /\ cprivate' = [cprivate EXCEPT ![p] = [video    |-> cache["input/source.mp4"],
                                            metadata |-> cache["input/metadata.json"]]]
    /\ cpos' = [cpos EXCEPT ![p] = "done"]
    /\ UNCHANGED <<wfVars, rvVars, regVars, batchVars, stateVars, refVars, cache, coffset, cwrites,
                   clate>>

NextCache ==
    \E p \in Procs :
        \/ CheckCache(p) \/ CopyFromCache(p) \/ SaveMetadata(p) \/ OpenVideo(p)
        \/ WriteChunk(p) \/ CloseVideo(p) \/ CopyDownloaded(p)

SpecCache == InitCache /\ [][NextCache]_vars

(***************************************************************************)
(* StateManager.update_state called once by each of two processes for the  *)
(* same video id.  fcntl.flock(LOCK_EX) on .state.lock blocks while        *)
(* another process holds the lock.                                         *)
(***************************************************************************)
\* .state.json with the entry of a download an earlier process completed
ExistingState == SetEntry(FreshState, "download", Entry("completed", 0))

InitState ==
    /\ OthersIdle /\ CacheIdle /\ RefineIdle
    /\ state_file \in {NoState, ExistingState}
    /\ sbefore = state_file
    /\ temp_file = NoState /\ lock = 0
    /\ spos = [p \in Procs |-> "start"]
    /\ sarg \in [Procs -> [step : StateSteps, status : StateStatuses]]
    /\ slocal = [p \in Procs |-> NoState]

\* a call that does not wait for the lock
Acquire_without_flock(p) ==
    /\ spos[p] = "start"
    /\ lock' = p
    /\ spos' = [spos EXCEPT ![p] = "locked"]
    /\ UNCHANGED <<wfVars, rvVars, regVars, batchVars, cacheVars, refVars, state_file, temp_file, sarg,
                   slocal, sbefore>>

\* open(lock_file, 'w'); fcntl.flock(lock.fileno(), fcntl.LOCK_EX)
Acquire(p) ==
    /\ spos[p] = "start" /\ lock = 0
    /\ lock' = p
    /\ spos' = [spos EXCEPT ![p] = "locked"]
    /\ UNCHANGED <<wfVars, rvVars, regVars, batchVars, cacheVars, refVars, state_file, temp_file, sarg,
                   slocal, sbefore>>

\* the current state read, or a new one when there is no state file
ReadState(p) ==
    /\ spos[p] = "locked"
    /\ slocal' = [slocal EXCEPT ![p] = IF state_file = NoState THEN FreshState
                                       ELSE state_file]
    /\ spos' = [spos EXCEPT ![p] = "read"]
    /\ UNCHANGED <<wfVars, rvVars, regVars, batchVars, cacheVars, refVars, state_file, temp_file, lock,
                   sarg, sbefore>>

\* state["steps"][step] = {...}; json.dump(state) into .state.json.tmp
WriteTemp(p) ==
    /\ spos[p] = "read"
    /\ LET st == SetEntry(slocal[p], sarg[p].step, Entry(sarg[p].status, p))
       IN  slocal' = [slocal EXCEPT ![p] = st] /\ temp_file' = st
    /\ spos' = [spos EXCEPT ![p] = "written"]
    /\ UNCHANGED <<wfVars, rvVars, regVars, batchVars, cacheVars, refVars, state_file, lock, sarg,
                   sbefore>>

\* temp_file.replace(self.state_file)
ReplaceState(p) ==
    /\ spos[p] = "written"
    /\ state_file' = temp_file /\ temp_file' = NoState
    /\ spos' = [spos EXCEPT ![p] = "replaced"]
    /\ UNCHANGED <<wfVars, rvVars, regVars, batchVars, cacheVars, refVars, lock, sarg, slocal, sbefore>>

\* finally: fcntl.flock(lock.fileno(), fcntl.LOCK_UN); the call returns
Release(p) ==
    /\ spos[p] = "replaced"
    /\ lock' = 0
    /\ spos' = [spos EXCEPT ![p] = "returned"]
    /\ UNCHANGED <<wfVars, rvVars, regVars, batchVars, cacheVars, refVars, state_file, temp_file, sarg,
                   slocal, sbefore>>

NextState ==
    \E p \in Procs :
        \/ Acquire(p) \/ ReadState(p) \/ WriteTemp(p) \/ ReplaceState(p) \/ Release(p)

SpecState == InitState /\ [][NextState]_vars

(***************************************************************************)
(* The refine_timestamps step of the orchestrator on a job with one        *)
(* highlight: _execute_step marks the step, refine_job_timestamps rewrites *)
(* job.yaml, _execute_step completes the step; then calls of               *)
(* refine_timestamp_with_words with that highlight's arguments.  The       *)
(* transcript is made of bursts of words; the first one is spoken at 10.0  *)
(* seconds and the next ones follow at a distance of the cluster window or *)
(* of more.                                                                *)
(***************************************************************************)
Word(word, start) == [word |-> word, start |-> start]

BurstRevenue ==
    <<Word(<<"r", "e", "v", "e", "n", "u", "e">>, 0),
      Word(<<"w", "a", "s">>, 4)>>

BurstNumber ==
    <<Word(<<"n", "i", "n", "e", "t", "y">>, 0),
      Word(<<"f", "o", "u", "r">>, 3),
      Word(<<"p", "o", "i", "n", "t">>, 5),
      Word(<<"n", "i", "n", "e">>, 7),
      Word(<<"b", "i", "l", "l", "i", "o", "n">>, 10)>>

BurstTwo ==
    <<Word(<<" ", "C", "l", "o", "u", "d">>, 0),
      Word(<<"r", "e", "v", "e", "n", "u", "e">>, 5)>>

BurstThree ==
    <<Word(<<"c", "l", "o", "u", "d">>, 0),
      Word(<<"r", "e", "v", "e", "n", "u", "e">>, 5),
      Word(<<"b", "i", "l", "l", "i", "o", "n">>, 9)>>

BurstFour ==
    <<Word(<<"b", "i", "l", "l", "i", "o", "n">>, 0),
      Word(<<"n", "i", "n", "e">>, 2),
      Word(<<"c", "l", "o", "u", "d">>, 4),
      Word(<<"r", "e", "v", "e", "n", "u", "e">>, 6)>>

BurstNine ==
    <<Word(<<"n", "i", "n", "e">>, 0)>>

Bursts == {BurstRevenue, BurstNumber, BurstTwo, BurstThree, BurstFour, BurstNine}

\* the distances between the beginnings of two bursts
Gaps == {CLUSTER_WINDOW, CLUSTER_WINDOW + 50}

\* the words of burst b spoken from time t on
At(b, t) == [i \in DOMAIN b |-> Word(b[i].word, t + b[i].start)]

\* the transcript in which the bursts are spoken one after the other
RECURSIVE Transcript(_, _, _)
Transcript(bursts, t, gap) ==
    IF bursts = <<>> THEN <<>>
    ELSE At(bursts[1], t) \o Transcript(Tail(bursts), t + gap, gap)

Transcripts ==
    {Transcript(bursts, 100, gap) :
        bursts \in UNION {[1..n -> Bursts] : n \in 0..MaxBursts}, gap \in Gaps}

RevenueText == <<"R", "e", "v", "e", "n", "u", "e", " ", "o", "f", " ", "$", "9", "4", ".", "9", " ", "b", "i", "l", "l", "i", "o", "n">>
GrowthText == <<"M", "o", "r", "e", " ", "c", "l", "o", "u", "d", " ", "r", "e", "v", "e", "n", "u", "e", " ", "g", "r", "o", "w", "t", "h">>
StopText == <<"O", "f", " ", "t", "h", "e", " ", "y", "e", "a", "r">>
NineText == <<"N", "i", "n", "e", " ", "b", "i", "l", "l", "i", "o", "n", " ", "c", "l", "o", "u", "d", " ", "r", "e", "v", "e", "n", "u", "e">>

Texts == {RevenueText, GrowthText, StopText, NineText}

Highlight(text, timestamp) == [text |-> text, timestamp |-> timestamp]

InitRefine ==
    /\ OthersIdle /\ CacheIdle /\ StateIdle
    /\ highlight \in {Highlight(text, 50) : text \in Texts}
    /\ hpre = highlight
    /\ transcript \in Transcripts
    /\ returned = <<>>
    /\ stats = NoStats
    /\ job_yaml_path = JobRecord(highlight.timestamp, "pending", NoStats)
    /\ self_job = job_yaml_path
    /\ rpos = "loaded"

\* what a call with the highlight's arguments gives
Call(h) == refine_timestamp_with_words(h.timestamp, extract_keywords_from_highlight(h), transcript)

\* the keywords a message lists come out of a set, whose order differs from
\* process to process: any of them can be the first one listed
FirstListed(r) == IF r.distinct = {} THEN {<<>>} ELSE r.distinct

\* _execute_step up to the handler's call: the orchestrator, which loaded
\* job.yaml when it was constructed, marks the step in progress and saves
ExecuteRefineStep ==
    /\ rpos = "loaded"
    /\ self_job' = [self_job EXCEPT !.status = "in_progress"]
    /\ job_yaml_path' = [self_job EXCEPT !.status = "in_progress"]
    /\ rpos' = "start"
    /\ UNCHANGED <<wfVars, rvVars, regVars, batchVars, cacheVars, stateVars, highlight, hpre,
                   transcript, returned, stats>>

\* the handler has returned its statistics: update_step(step_name,
\* status='completed', **result), which saves the record held in memory
CompleteRefineStep ==
    /\ rpos = "done"
    /\ self_job' = [self_job EXCEPT !.status = "completed", !.stats = stats]
    /\ job_yaml_path' = [self_job EXCEPT !.status = "completed", !.stats = stats]
    /\ rpos' = "completed"
    /\ UNCHANGED <<wfVars, rvVars, regVars, batchVars, cacheVars, stateVars, highlight, hpre,
                   transcript, returned, stats>>

\* one more call of refine_timestamp_with_words, after the step, with the
\* arguments refine_job_timestamps called it with
CallRefine ==
    /\ rpos = "completed" /\ Len(returned) < 2
    /\ LET r == Call(hpre)
       IN  \E first \in FirstListed(r) :
               returned' = Append(returned, [timestamp |-> r.timestamp, how |-> r.how,
                                             listed |-> first])
    /\ UNCHANGED <<wfVars, rvVars, regVars, batchVars, cacheVars, stateVars, highlight, hpre,
                   transcript, stats, rpos, job_yaml_path, self_job>>

\* a loop body that writes the timestamp returned whatever it is
refine_job_timestamps_writes_always ==
    /\ rpos = "start"
    /\ highlight' = [highlight EXCEPT !.timestamp = Call(highlight).timestamp]
    /\ stats' = [stats EXCEPT !.highlights_refined = @ + 1]
    /\ job_yaml_path' = [job_yaml_path EXCEPT !.timestamp = highlight'.timestamp]
    /\ rpos' = "done"
    /\ UNCHANGED <<wfVars, rvVars, regVars, batchVars, cacheVars, stateVars, hpre, transcript,
                   returned, self_job>>

\* refine_job_timestamps: job.yaml loaded, the loop body for the
\* highlight, and job.yaml written from the record loaded
refine_job_timestamps ==
    /\ rpos = "start"
    /\ LET original_ts == highlight.timestamp
           refined_ts == Call(highlight).timestamp
       IN  IF refined_ts # original_ts
           THEN /\ highlight' = [highlight EXCEPT !.timestamp = refined_ts]
                /\ stats' = [stats EXCEPT !.highlights_refined = @ + 1]
           ELSE /\ highlight' = highlight
                /\ stats' = [stats EXCEPT !.highlights_unchanged = @ + 1]
    /\ job_yaml_path' = [job_yaml_path EXCEPT !.timestamp = highlight'.timestamp]
    /\ rpos' = "done"
    /\ UNCHANGED <<wfVars, rvVars, regVars, batchVars, cacheVars, stateVars, hpre, transcript,
                   returned, self_job>>

NextRefine == ExecuteRefineStep \/ refine_job_timestamps \/ CallRefine \/ CompleteRefineStep

SpecRefine == InitRefine /\ [][NextRefine]_vars

(***************************************************************************)
(* Vocabulary of the properties.                                           *)
(***************************************************************************)
Range(seq) == {seq[i] : i \in DOMAIN seq}

\* the persisted status of step k in job record j ("None" when it has none)
StatusIn(j, k) == GetStr(GetDict(j.processing, workflow[k].name), "status")

\* a run of the given entry point is going on or has just ended otherwise
\* than by a crash (so that pre is the job record it loaded)
InRun   == ended \in {"running", "returned", "raised"} /\ pre # NoJob
Returned(m) == pc = "idle" /\ ended = "returned" /\ mode = m

AllCompleted(j) == \A k \in StepIdx : StatusIn(j, k) = "completed"

(***************************************************************************)
(* C1  Idempotence.                                                        *)
(***************************************************************************)
\* C1 as stated: run_all without force on a job whose every step is
\* persisted as completed invokes no handler and, when it returns, the
\* persisted record equals the record before the run.
C1_RecordUnchanged ==
    (Returned("run_all") /\ ~force /\ AllCompleted(pre))
        => (invoked = <<>> /\ disk = pre)

\* C1 amended: run_all without force on a job whose every step is persisted
\* as completed invokes no handler and, when it returns, the persisted
\* record equals the record before the run in everything but the overall
\* status, which is completed.
C1_Idempotence ==
    (Returned("run_all") /\ ~force /\ AllCompleted(pre))
        => (invoked = <<>> /\ disk = [pre EXCEPT !.status = "completed"])

C1_Witness ==
    Returned("run_all") /\ ~force /\ AllCompleted(pre) /\ pre.status = "completed"
    /\ disk = pre

(***************************************************************************)
(* C2  Resumability.  A step is persisted as in_progress at the start of   *)
(* a run only when an earlier process died inside that step.               *)
(***************************************************************************)
FreshFullRun == InRun /\ mode = "run_all" /\ ~force

\* C2 as stated: a fresh full run after a crash inside step k invokes the
\* handler of k again.
C2_HandlerInvokedAgain ==
    (Returned("run_all") /\ ~force)
        => \A k \in StepIdx : StatusIn(pre, k) = "in_progress" => k \in Range(invoked)

\* C2 amended: if a process died while the handler of step k was running
\* and every step before k is persisted as completed, a fresh full run
\* invokes no handler of those steps, invokes the handler of k again and goes
\* on with the following steps in order.  In general a fresh full run never
\* skips a step persisted as in_progress as already completed: once the run
\* reaches the step it is skipped only by its skip_if, and otherwise marked
\* in_progress again and its handler invoked again unless its inputs fail
\* to resolve or its handler id is not registered; no handler of a step persisted as completed is invoked; the
\* steps are visited in declaration order and the run goes on to the next
\* step after every step that did not fail as a required step.
C2_Resume ==
    FreshFullRun =>
        /\ \A k \in StepIdx :
             (/\ died = k /\ StatusIn(pre, k) = "in_progress"
              /\ \A j \in 1..(k-1) : StatusIn(pre, j) = "completed"
              /\ ended = "returned")
                => (invoked # <<>> /\ invoked[1] = k)
        /\ \A k \in StepIdx :
             (StatusIn(pre, k) = "in_progress" /\ k \in Range(visited)) =>
                \/ outcome[k] = "skipped" /\ workflow[k].skip_if # NoCondition
                \/ k = idx /\ pc = "saving" /\ cont = "in_progress"
                \/ k = idx /\ pc = "in_progress"
                \/ k \in Range(invoked)
                \/ cause[k] \in {"inputs", "get_handler"}
        /\ \A k \in Range(invoked) : StatusIn(pre, k) # "completed"
        /\ \A p \in DOMAIN visited : visited[p] = p
        /\ \A p, q \in DOMAIN invoked : p < q => invoked[p] < invoked[q]
        /\ ended = "returned" =>
             \/ Len(visited) = Len(workflow)
             \/ /\ visited # <<>>
                /\ outcome[Len(visited)] = "failed"
                /\ workflow[Len(visited)].required

C2_Witness ==
    /\ Returned("run_all") /\ ~force
    /\ died = 2
    /\ StatusIn(pre, 1) = "completed"
    /\ StatusIn(pre, 2) = "in_progress"
    /\ invoked = <<2, 3>>
    /\ outcome[3] = "completed"

(***************************************************************************)
(* C3  Required and optional failure.                                      *)
(***************************************************************************)
\* C3: when the handler of step k raises, k is marked failed; if k is
\* required no handler of a later step is invoked (and no later step is
\* visited) in that run; if k is not required the loop of run_all or
\* run_from_step goes on to the next step in declaration order.
C3_RequiredOptional ==
    InRun =>
        \A k \in StepIdx : cause[k] = "handler" =>
            /\ job # NoJob => StatusIn(job, k) = "failed"
            /\ disk # Truncated => StatusIn(disk, k) = "failed"
            /\ workflow[k].required =>
                 \A j \in Range(invoked) \cup Range(visited) : j <= k
            /\ (~workflow[k].required /\ ended = "returned" /\ mode # "run_step"
                    /\ k < Len(workflow))
                 => (k + 1) \in Range(visited)

C3_Witness ==
    /\ Returned("run_all")
    /\ \E k \in StepIdx : cause[k] = "handler" /\ ~workflow[k].required
                          /\ (k + 1) \in Range(invoked)
    /\ \E k \in StepIdx : cause[k] = "handler" /\ workflow[k].required
                          /\ k < Len(workflow)

(***************************************************************************)
(* C4  Failures are persisted before the exception propagates.             *)
(***************************************************************************)
\* C4: whenever the exception of a failed step has left _execute_step (and
\* when it has left run_step), job.yaml is complete and shows the step as
\* failed with its error message, never as in_progress.
C4_FailurePersistedFirst ==
    /\ pc = "step_raised" =>
         /\ disk # Truncated
         /\ StatusIn(disk, idx) = "failed"
         /\ "error" \in DOMAIN disk.processing[workflow[idx].name]
    /\ (pc = "idle" /\ ended = "raised" /\ visited # <<>>) =>
         /\ disk # Truncated
         /\ StatusIn(disk, start_index) = "failed"
         /\ "error" \in DOMAIN disk.processing[workflow[start_index].name]

C4_Witness ==
    /\ pc = "step_raised"
    /\ cause[idx] = "inputs"
    /\ StatusIn(disk, idx) = "failed"

(***************************************************************************)
(* C5  Overall status of a full run.                                       *)
(***************************************************************************)
NoRequiredFailure == \A k \in StepIdx : outcome[k] = "failed" => ~workflow[k].required

\* C5: when run_all returns, the persisted overall status is completed if
\* and only if no required step failed in the run (the failure of a step
\* that is not required does not prevent completed), and failed otherwise.
C5_StatusIffNoRequiredFailure ==
    Returned("run_all") =>
        /\ disk # Truncated
        /\ disk.status = (IF NoRequiredFailure THEN "completed" ELSE "failed")

(***************************************************************************)
(* C6  completed comes with the handler's result.                          *)
(***************************************************************************)
\* C6: in every complete job.yaml a step with status completed has a
\* handler that returned, and its record holds every field of the result
\* that handler returned last.
C6_CompletedHasResult ==
    disk # Truncated =>
        \A k \in StepIdx : StatusIn(disk, k) = "completed" =>
            /\ hres[k] # NoResult
            /\ \A key \in DOMAIN hres[k] :
                 /\ key \in DOMAIN disk.processing[workflow[k].name]
                 /\ disk.processing[workflow[k].name][key] = hres[k][key]

C6_Witness ==
    /\ disk # Truncated
    /\ StatusIn(disk, 1) = "completed"
    /\ hres[1] = [value |-> "b"]
    /\ disk.processing["download"]["value"] = "b"
    /\ runs = 2

(***************************************************************************)
(* C7  Atomic save.                                                        *)
(***************************************************************************)
\* C7: whenever the process crashes, job.yaml holds a complete record (the
\* previous one or the new one), never a truncated document.
C7_SaveAtomic == ended = "crashed" => disk # Truncated

(***************************************************************************)
(* C8  Declaration order and the subsets of the entry points.              *)
(***************************************************************************)
Passed(j) ==
    \/ outcome[j] \in {"skipped", "completed"}
    \/ outcome[j] = "failed" /\ ~workflow[j].required

\* C8: the steps an entry point applies _execute_step to are, in call
\* order, consecutive steps of the workflow from its first step on: step 1
\* for run_all, the named step for run_step (and no other), step N for
\* run_from_step; a handler is invoked only for a visited step and only
\* when every earlier step of the run was skipped, completed or failed as
\* a step that is not required; a run that returns has gone through all of
\* its steps unless a required step failed.
C8_DeclarationOrder ==
    InRun =>
        /\ mode = "run_all" => start_index = 1
        /\ \A p \in DOMAIN visited : visited[p] = start_index + p - 1
        /\ mode = "run_step" => Len(visited) <= 1
        /\ \A k \in Range(invoked) :
             /\ k \in Range(visited)
             /\ \A j \in start_index..(k-1) : Passed(j)
        /\ Returned("run_step") => visited = <<start_index>>
        /\ (Returned("run_all") \/ Returned("run_from_step")) =>
             \/ Len(visited) = Len(workflow) - start_index + 1
             \/ /\ visited # <<>>
                /\ outcome[visited[Len(visited)]] = "failed"
                /\ workflow[visited[Len(visited)]].required

C8_Witness ==
    /\ Returned("run_from_step")
    /\ start_index = 2
    /\ visited = <<2, 3>>
    /\ invoked = <<3>>
    /\ StatusIn(pre, 1) = "None"

(***************************************************************************)
(* C9  Inputs that fail to resolve.                                        *)
(***************************************************************************)
\* C9: a handler is invoked only with every declared input of its step
\* resolved; when an input fails to resolve the handler is not invoked, the
\* step is persisted as failed with the error message, a required step
\* ends the run (no later step is visited) and after a step that is not
\* required the loop goes on to the next step.
C9_InputFailure ==
    /\ job # NoJob =>
         \A k \in Range(invoked) : \A n \in DOMAIN workflow[k].inputs :
             resolve_variable(workflow[k].inputs[n], job, outputs).tag \in {"lit", "val"}
    /\ InRun =>
         \A k \in StepIdx : cause[k] = "inputs" =>
            /\ k \notin Range(invoked)
            /\ disk # Truncated =>
                 /\ StatusIn(disk, k) = "failed"
                 /\ GetStr(disk.processing[workflow[k].name], "error") = "Failed: inputs"
            /\ workflow[k].required =>
                 \A j \in Range(invoked) \cup Range(visited) : j <= k
            /\ (~workflow[k].required /\ ended = "returned" /\ mode # "run_step"
                    /\ k < Len(workflow))
                 => (k + 1) \in Range(visited)

C9_Witness ==
    /\ Returned("run_all")
    /\ cause[2] = "inputs" /\ ~workflow[2].required
    /\ invoked = <<1, 3>>
    /\ StatusIn(disk, 2) = "failed"

(***************************************************************************)
(* C10  resolve_variable.                                                  *)
(***************************************************************************)
Names == Tokens \ {"$", "{", "}", "."}

Ref(s, f) == <<"$", "{", s, ".", f, "}">>

\* C10: resolve_variable gives, for ${s.f} with s a step id, the value
\* registered under output f of step s; for ${input.f} the field f of the
\* job's input section; for ${job.f} the job's top-level field f; and for
\* an expression that does not both start with ${ and end with } the
\* expression itself.
C10_ResolveVariable ==
    pc = "resolved" =>
        /\ ~(Len(expression) >= 3 /\ expression[1] = "$" /\ expression[2] = "{"
                /\ expression[Len(expression)] = "}")
             => result = Lit(expression)
        /\ \A s, f \in Names : expression = Ref(s, f) =>
             /\ (s = "input" /\ f \in DOMAIN job.input)
                  => (result.tag = "val" /\ result.val = job.input[f])
             /\ (s = "job" /\ f \in DOMAIN job)
                  => (result.tag = "val" /\ result.val = job[f])
             /\ (s \notin {"input", "job"} /\ s \in DOMAIN outputs
                    /\ f \in DOMAIN outputs[s])
                  => (result.tag = "val" /\ result.val = outputs[s][f])

C10_Witness ==
    /\ pc = "resolved"
    /\ expression = Ref("download", "value")
    /\ result = Val("a")

(***************************************************************************)
(* C11  The context restored at construction.                              *)
(***************************************************************************)
\* what the run that completed step k registered for it
RegisteredThen(k) == RegisteredOutputs(workflow[k], hres[k])

\* C11: in a process constructed for a job, as long as the handler of step
\* k has not been invoked by it: if k is persisted as completed, every
\* reference ${k.f} that resolved in the run that completed k (f an output
\* that run registered, from the full result or through the declared
\* outputs mapping) resolves to the same value; if k is not persisted as
\* completed, the context holds no outputs of k.
C11_RestoredContext ==
    (InRun /\ pc # "idle" /\ job # NoJob) =>
        \A k \in StepIdx \ Range(invoked) :
            /\ StatusIn(pre, k) = "completed" =>
                 \A f \in DOMAIN RegisteredThen(k) :
                     resolve_variable(Ref(workflow[k].name, f), job, outputs)
                         = Val(RegisteredThen(k)[f])
            /\ StatusIn(pre, k) # "completed" =>
                 workflow[k].name \notin DOMAIN outputs

C11_Witness ==
    /\ pc = "execute" /\ visited = <<>> /\ runs = 2
    /\ StatusIn(pre, 1) = "completed" /\ StatusIn(pre, 2) = "failed"
    /\ StatusIn(pre, 3) = "completed"
    /\ resolve_variable(Ref("download", "value"), job, outputs) = Val("b")
    /\ resolve_variable(Ref("notify", "url"), job, outputs) = Val("a")
    /\ "transcribe" \notin DOMAIN outputs

(***************************************************************************)
(* C12  The error for a reference to a step without outputs.               *)
(***************************************************************************)
\* C12: resolving ${s.f} for a step id s that has no outputs in the context
\* raises an error whose message lists the step ids the context holds.
C12_MissingStepListsStepIds ==
    pc = "resolved" =>
        \A s, f \in Names :
            (expression = Ref(s, f) /\ s \notin {"input", "job"} /\ s \notin DOMAIN outputs)
                => (result.tag = "KeyError" /\ message.available = DOMAIN outputs)

(***************************************************************************)
(* C13  Registration of outputs.                                           *)
(***************************************************************************)
\* the handler of step k has returned in this run (hres[k] is its result)
HasReturned(k) == outcome[k] = "completed" \/ cause[k] = "TypeError"

OutputsOf(k) == outputs[workflow[k].name]

\* C13 as stated: for a step with an outputs mapping whose handler has
\* returned in this run, the names registered are exactly the declared
\* ones; for a step without a mapping the full result is registered.
C13_ExactlyDeclaredNames ==
    (InRun /\ pc # "idle") =>
        \A k \in StepIdx : HasReturned(k) =>
            /\ workflow[k].name \in DOMAIN outputs
            /\ IF DOMAIN workflow[k].outputs = {}
               THEN OutputsOf(k) = hres[k]
               ELSE /\ DOMAIN OutputsOf(k) = DOMAIN workflow[k].outputs
                    /\ \A n \in DOMAIN OutputsOf(k) :
                         OutputsOf(k)[n] = hres[k][workflow[k].outputs[n]]

\* C13 amended: for a step with an outputs mapping whose handler has
\* returned in this run, the names registered are exactly the declared
\* names whose mapped key is a key of the handler result, each bound to the
\* result's value under that key, and a reference to any other key of the
\* result raises KeyError; for a step without a mapping the full result is
\* registered.
C13_RegisterOutputs ==
    (InRun /\ pc # "idle") =>
        \A k \in StepIdx : HasReturned(k) =>
            /\ workflow[k].name \in DOMAIN outputs
            /\ IF DOMAIN workflow[k].outputs = {}
               THEN OutputsOf(k) = hres[k]
               ELSE /\ DOMAIN OutputsOf(k) =
                          {n \in DOMAIN workflow[k].outputs :
                              workflow[k].outputs[n] \in DOMAIN hres[k]}
                    /\ \A n \in DOMAIN OutputsOf(k) :
                         OutputsOf(k)[n] = hres[k][workflow[k].outputs[n]]
                    /\ \A key \in (DOMAIN hres[k]) \ (DOMAIN OutputsOf(k)) :
                         resolve_variable(Ref(workflow[k].name, key), job, outputs).tag
                             = "KeyError"

C13_Witness ==
    /\ pc = "step_true" /\ idx = 3 /\ invoked = <<1, 2, 3>>
    /\ hres[2] = EmptyDict /\ hres[3] = [value |-> "a"]
    /\ outputs = [download |-> [value |-> "b"], transcribe |-> EmptyDict,
                  notify |-> [url |-> "a"]]

(***************************************************************************)
(* C14  A step skipped by its skip_if.                                     *)
(***************************************************************************)
\* _execute_step has just returned for step idx because its skip_if holds
\* (and not because the step is completed)
SkippedByCondition ==
    /\ pc = "step_true" /\ outcome[idx] = "skipped"
    /\ ~(~force /\ StatusIn(job, idx) = "completed")

\* C14: when a step is not skipped as already completed and its skip_if
\* evaluates true, its handler is not invoked and its persisted status is
\* skipped.
C14_SkippedPersisted ==
    SkippedByCondition =>
        /\ idx \notin Range(invoked)
        /\ disk # Truncated
        /\ StatusIn(disk, idx) = "skipped"

(***************************************************************************)
(* C15  The status values of step records.                                 *)
(***************************************************************************)
StepStatuses(j) == {GetStr(j.processing[n], "status") : n \in DOMAIN j.processing}

PastMark(k) ==
    /\ k \in Range(visited)
    /\ ~(k = idx /\ pc = "saving" /\ cont = "in_progress")
    /\ ~(k = idx /\ pc = "in_progress")

\* without force no handler of a step persisted as completed is invoked
NoForceNoInvocation ==
    ~force => \A k \in Range(invoked) : StatusIn(pre, k) # "completed"

\* C16 as stated: without force the handler of a step persisted as
\* completed is never invoked; with force every visited step whose skip_if
\* does not hold has its handler invoked.
C16_ForceInvokesAll ==
    InRun =>
        /\ NoForceNoInvocation
        /\ force => \A k \in StepIdx :
                        (PastMark(k) /\ outcome[k] # "skipped") => k \in Range(invoked)

\* C16 amended: without force the handler of a step persisted as completed
\* is never invoked; with force a step is skipped only when it has a
\* skip_if and the skip_if holds, and every other visited step is marked
\* in_progress and has its handler invoked, completed before or not,
\* unless its inputs fail to resolve or its handler id is not registered.
C16_ForceRerun ==
    InRun =>
        /\ NoForceNoInvocation
        /\ force =>
             /\ \A k \in StepIdx :
                  (PastMark(k) /\ outcome[k] # "skipped")
                      => (k \in Range(invoked) \/ cause[k] \in {"inputs", "get_handler"})
             /\ \A k \in StepIdx : outcome[k] = "skipped" =>
                  /\ workflow[k].skip_if # NoCondition
                  /\ k \notin Range(invoked)
             /\ (pc = "step_true" /\ outcome[idx] = "skipped")
                  => _evaluate_condition(workflow[idx].skip_if, job)

C16_Witness ==
    /\ Returned("run_all") /\ force
    /\ AllCompleted(pre)
    /\ invoked = <<1, 2, 3>>
    /\ hres[1] = [value |-> "b"]

(***************************************************************************)
(* C17  Exit code of the run command.                                      *)
(***************************************************************************)
RequiredFailed == \E k \in StepIdx : outcome[k] = "failed" /\ workflow[k].required

FullSuccess ==
    /\ mode = "run_all" /\ Len(visited) = Len(workflow)
    /\ \A k \in StepIdx : outcome[k] \in {"completed", "skipped"}

\* C17: when the command has ended (other than by a crash), in each mode
\* its exit code is 0 if the full workflow succeeded and not 0 if a
\* required step failed.
C17_ExitCode ==
    (pc = "idle" /\ ended \in {"returned", "raised"}) =>
        /\ FullSuccess => exit_code = 0
        /\ RequiredFailed => exit_code # 0

(***************************************************************************)
(* C18  A workflow that cites an unregistered handler id.                  *)
(***************************************************************************)
CitesUnregistered ==
    \E k \in StepIdx : get_handler(STEP_HANDLERS, workflow[k].handler).tag = "ValueError"

\* C18: for a workflow that cites an unregistered handler id no handler of
\* any step is ever invoked and no step record of job.yaml is ever
\* modified (the step records stay as the job was created with).
C18_RejectedAtLoad ==
    CitesUnregistered =>
        /\ invoked = <<>>
        /\ disk # Truncated => disk.processing \in {j.processing : j \in NewJobs}

(***************************************************************************)
(* C19  get_handler and list_handlers.                                     *)
(***************************************************************************)
BothCalled == handler # NotCalled /\ listing # EmptyDict

\* C19: list_handlers reports every registered id; for a registered id it
\* says available if and only if get_handler returns a handler for it; what
\* get_handler returns is a function, never None; for every other id
\* (unregistered, or registered with None) get_handler raises ValueError
\* with a message that lists all the registered ids.
C19_Registry ==
    BothCalled =>
        /\ DOMAIN listing = DOMAIN STEP_HANDLERS
        /\ handler_name \in DOMAIN STEP_HANDLERS =>
             (listing[handler_name] = "available" <=> handler.tag = "handler")
        /\ handler.tag = "handler" =>
             /\ handler_name \in DOMAIN STEP_HANDLERS
             /\ handler.fn = STEP_HANDLERS[handler_name]
             /\ handler.fn # None
        /\ handler.tag # "handler" =>
             /\ handler.tag = "ValueError"
             /\ handler.available = DOMAIN STEP_HANDLERS

C19_Witness ==
    /\ BothCalled
    /\ handler_name = "notify_seo"
    /\ STEP_HANDLERS["notify_seo"] = None
    /\ STEP_HANDLERS["transcribe_whisperx"] # None
    /\ listing["notify_seo"] = "not implemented"
    /\ listing["transcribe_whisperx"] = "available"
    /\ handler.tag = "ValueError"

(***************************************************************************)
(* C20  Batch isolation.                                                   *)
(***************************************************************************)
NJobs == Len(batch_yaml.jobs)

Raised == {i \in DOMAIN bhow : bhow[i] = "raised"}

\* C20: an exception that leaves process_job for job i is recorded as the
\* failure of job i (persisted before the next job starts) and every job
\* after i that was not completed or skipped before is still processed;
\* when process_batch returns, each job that raised is persisted as failed,
\* each job that went through all its steps as completed, and the persisted counts are those of the job statuses: in
\* a batch where exactly one job raised and every other job completed (with
\* three jobs, the second raising) they show 1 failed and all the others
\* (2) completed.
C20_BatchIsolation ==
    /\ (bpc = "job_done" /\ bhow[bj] = "raised") => batch_yaml.jobs[bj].status = "failed"
    /\ bended = "returned" =>
         /\ \A i \in Raised :
              /\ batch_yaml.jobs[i].status = "failed"
              /\ \A k \in (i+1)..NJobs :
                   bpre.batch.jobs[k].status \notin {"completed", "skipped"}
                       => bhow[k] # "none" /\ k \in Range(bvisited)
         /\ \A i \in DOMAIN bhow :
              bhow[i] = "completed" => batch_yaml.jobs[i].status = "completed"
         /\ \A p, q \in DOMAIN bvisited : p < q => bvisited[p] < bvisited[q]
         /\ batch_yaml.stats = BatchStats(batch_yaml.jobs)
         /\ (Cardinality(Raised) = 1
                /\ \A i \in DOMAIN bhow \ Raised : bhow[i] = "completed")
              => /\ batch_yaml.stats.failed = 1
                 /\ batch_yaml.stats.completed = NJobs - 1
                 /\ batch_yaml.stats.pending = 0
                 /\ batch_yaml.stats.processing = 0

C20_Witness ==
    /\ bended = "returned"
    /\ bhow = <<"completed", "raised", "completed">>
    /\ bvisited = <<1, 2, 3>>
    /\ batch_yaml.jobs[2].status = "failed"
    /\ batch_yaml.stats = [total |-> 3, pending |-> 0, processing |-> 0, completed |-> 2,
                           failed |-> 1, skipped |-> 0]

(***************************************************************************)
(* C21  Operator interrupt while a job of a batch is processed.            *)
(***************************************************************************)
\* the batch process was ended by a KeyboardInterrupt that arrived after
\* process_job was called for job bj and before the try statement was left
InterruptedMidJob == bended = "interrupted" /\ bhow[bj] \in {"interrupted", "raised_interrupted"}

\* C21: when an operator interrupt arrives while a job of a batch is being
\* processed, that job's status is pending in the batch record persisted
\* when the interrupt propagates, and no job of that record has status
\* processing.
C21_InterruptResetsJob ==
    InterruptedMidJob =>
        /\ batch_yaml.jobs[bj].status = "pending"
        /\ \A i \in DOMAIN batch_yaml.jobs : batch_yaml.jobs[i].status # "processing"

(***************************************************************************)
(* C22  Aggregate counts after every job.                                  *)
(***************************************************************************)
JobStatuses == {"pending", "processing", "completed", "failed", "skipped"}

\* the loop of process_batch has just finished with a job (process_job
\* returned or raised, update_batch_stats done), or process_batch returned
JobFinished ==
    \/ bpc = "loop" /\ bj > 1 /\ bhow[bj - 1] \in {"completed", "failed", "skipped", "raised"}
    \/ bended = "returned"

\* C22: after every job of a batch finishes (successfully, as failed, as
\* skipped, or through an unhandled exception), each persisted aggregate
\* count of {pending, processing, completed, failed, skipped} is the number
\* of jobs of the persisted record in that status, the counts sum to the
\* total and the total is the number of jobs.
C22_AggregateCounts ==
    JobFinished =>
        /\ \A st \in JobStatuses :
              batch_yaml.stats[st] =
                  Cardinality({i \in DOMAIN batch_yaml.jobs : batch_yaml.jobs[i].status = st})
        /\ batch_yaml.stats.pending + batch_yaml.stats.processing
              + batch_yaml.stats.completed + batch_yaml.stats.failed
              + batch_yaml.stats.skipped = batch_yaml.stats.total
        /\ batch_yaml.stats.total = Len(batch_yaml.jobs)

C22_Witness ==
    /\ bpc = "loop" /\ bj = 4
    /\ bhow = <<"completed", "skipped", "raised">>
    /\ batch_yaml.stats = [total |-> 3, pending |-> 0, processing |-> 0, completed |-> 1,
                           failed |-> 1, skipped |-> 1]

(***************************************************************************)
(* C23  Jobs and steps a batch run processes.                              *)
(***************************************************************************)
\* the step statuses process_job works from for job i: those of the batch
\* record (all pending when it has none), overwritten by the processing
\* section of the job's job.yaml when that file exists
StepsFound(i) ==
    LET st == bpre.batch.jobs[i].steps
        s0 == IF st = EmptyDict THEN PendingSteps ELSE st
    IN  IF bpre.job_yaml[i] = Absent THEN s0 ELSE Merge(s0, bpre.job_yaml[i])

NotCompleted(i) == {n \in StepSet : StepsFound(i)[n] # "completed"}

DoneBefore(i) == bpre.batch.jobs[i].status \in {"completed", "skipped"}

\* the steps of job i the batch record had as completed
CompletedInBatch(i) ==
    LET st == bpre.batch.jobs[i].steps
    IN  {n \in DOMAIN st : st[n] = "completed"}

NoJobFailed == \A i \in DOMAIN batch_yaml.jobs : batch_yaml.jobs[i].status # "failed"

\* C24: the batch command exits with code 0 if and only if no job of the
\* batch failed.
C24_BatchExitCode ==
    bended = "returned" => (batch_exit_code = 0 <=> NoJobFailed)

(***************************************************************************)
(* C25  Concurrent population of a cache entry.                            *)
(***************************************************************************)
\* a write of one process lies between two writes of another
InterleavedWrites ==
    \E i, j, k \in DOMAIN cwrites :
        i < j /\ j < k /\ cwrites[i].by = cwrites[k].by /\ cwrites[j].by # cwrites[i].by

\* neither process started after the other had completed its download
Concurrently == \A p \in DOMAIN clate : ~clate[p]

\* C25: two job processes that concurrently process the same uncached
\* source id never interleave their writes to the cache entry, and at most
\* one of them downloads and writes the entry.
C25_ExclusivePopulation ==
    /\ ~InterleavedWrites
    /\ Concurrently => Cardinality(Writers) <= 1

(***************************************************************************)
(* C26  Concurrent update_state calls.                                     *)
(***************************************************************************)
\* the processes between flock(LOCK_EX) and flock(LOCK_UN)
InUpdate == {p \in DOMAIN spos : spos[p] \in {"locked", "read", "written", "replaced"}}

BothReturned == spos # <<>> /\ \A p \in DOMAIN spos : spos[p] = "returned"

\* the steps the calls update
UpdatedSteps == {sarg[p].step : p \in DOMAIN sarg}

\* the entries .state.json had before the calls
EntriesBefore == IF sbefore = NoState THEN EmptyDict ELSE sbefore.steps

\* C26: concurrent update_state calls of different processes for the same
\* video id are serialized: at most one process is between taking and
\* releasing the lock, with the state it read being the state file's; after
\* both calls have returned the state file has the entry of each call's
\* step (that call's entry when the two steps differ, the entry of one of
\* the two calls when they are the same step) and every other step's
\* entry is as it was before.
C26_UpdateStateSerialized ==
    /\ Cardinality(InUpdate) <= 1
    /\ BothReturned =>
         /\ DOMAIN state_file.steps = UpdatedSteps \cup DOMAIN EntriesBefore
         /\ \A p \in DOMAIN sarg :
              \/ state_file.steps[sarg[p].step] = Entry(sarg[p].status, p)
              \/ \E q \in DOMAIN sarg \ {p} :
                    /\ sarg[q].step = sarg[p].step
                    /\ state_file.steps[sarg[p].step] = Entry(sarg[q].status, q)
         /\ \A n \in DOMAIN EntriesBefore \ UpdatedSteps :
              state_file.steps[n] = EntriesBefore[n]

C26_Witness ==
    /\ BothReturned
    /\ sbefore = ExistingState
    /\ sarg[1] = [step |-> "parse", status |-> "completed"]
    /\ sarg[2] = [step |-> "transcribe", status |-> "failed"]
    /\ state_file.steps = [n \in StateSteps |->
                              IF n = "download" THEN Entry("completed", 0)
                              ELSE IF n = "parse" THEN Entry("completed", 1)
                              ELSE Entry("failed", 2)]

(***************************************************************************)
(* C27  A completed cache entry.                                           *)
(***************************************************************************)
\* C27: once a source id has been downloaded into the shared download
\* cache, every later job for that id finds the entry, never writes a file
\* of the cache, and has the entry's files copied into its own directory
\* when its step is done.
C27_CompletedEntryImmutable ==
    \A p \in DOMAIN clate :
        clate[p] =>
            /\ cpos[p] \in {"cached", "done"}
            /\ p \notin Writers
            /\ cpos[p] = "done" => cprivate[p] = [video |-> WholeVideo, metadata |-> Metadata]

(***************************************************************************)
(* C28                                                                     *)
(***************************************************************************)
\* the transcript revenue@10.0, was@10.4, ninety@25.0, four@25.3,
\* point@25.5, nine@25.7, billion@26.0 and the highlight "Revenue of $94.9
\* billion" with the approximate timestamp 5.0
ClusteringScenario ==
    /\ hpre = Highlight(RevenueText, 50)
    /\ transcript = Transcript(<<BurstRevenue, BurstNumber>>, 100, CLUSTER_WINDOW)

\* C28: for the transcript revenue@10.0, was@10.4, ninety@25.0, four@25.3,
\* point@25.5, nine@25.7, billion@26.0, the event text "Revenue of $94.9
\* billion" and the approximate timestamp 5.0, the refined timestamp is 25.5
\* (the cluster at 25.0-26.0 wins), both as the function returns it and as
\* refine_job_timestamps leaves it in the event.
C28_DenseClusterWins ==
    ClusteringScenario =>
        /\ \A i \in DOMAIN returned : returned[i].timestamp = 255
        /\ rpos \in {"done", "completed"} => highlight.timestamp = 255

(***************************************************************************)
(* C29                                                                     *)
(***************************************************************************)
\* the call took the branch of no keyword extracted, or of no keyword
\* matching any word of the transcript
NoKeywordOccurs(r) == r.how \in {"no_keywords", "no_matches"}

\* the event carries a field besides its text and its timestamp
Flagged(h) == DOMAIN h # {"text", "timestamp"}

ClustersOf(ms) == IF ms = <<>> THEN <<>> ELSE Clusters(ms, 2, <<ms[1]>>)

\* the clusters of the matches of the highlight's keywords, in time order
ClustersFound ==
    LET all_matches == SortByTime(AllMatches(transcript,
                                             extract_keywords_from_highlight(hpre), 1))
    IN  IF all_matches = <<>> THEN <<>> ELSE Clusters(all_matches, 2, <<all_matches[1]>>)

\* the positions of the clusters cs whose score is the highest of all
Highest(cs) ==
    {i \in DOMAIN cs : \A j \in DOMAIN cs : score_cluster(cs[j]) <= score_cluster(cs[i])}

\* the position of the earliest cluster of cs among those at the positions I
Earliest(I) == CHOOSE i \in I : \A j \in I : i <= j

\* the timestamp returned when cluster c is the one selected
Selects(r, c) == r.timestamp = c[1].timestamp + BUFFER

\* any two calls with the same arguments returned the same timestamp by
\* the same branch
SameResult ==
    \A i, j \in DOMAIN returned :
        returned[i].timestamp = returned[j].timestamp /\ returned[i].how = returned[j].how

FailureFields == {"error", "failed_at"}

\* C31: the processing map holds one record per step name, and a step
\* whose latest attempt completed carries no error or failure fields left
\* over from an earlier failed attempt: in every persisted job record a
\* step with status completed has neither an error nor a failed_at key.
C31_RecordOfLatestAttempt ==
    disk # Truncated =>
        \A n \in DOMAIN disk.processing :
            GetStr(disk.processing[n], "status") = "completed"
                => DOMAIN disk.processing[n] \cap FailureFields = {}

(***************************************************************************)
(* C36                                                                     *)
(***************************************************************************)
\* C36: whenever an entry point (run_all, run_step or run_from_step)
\* returns and every step of the workflow is persisted as completed, the
\* job's persisted overall status is completed.
C36_AllCompletedIsCompleted ==
    (pc = "idle" /\ ended = "returned" /\ disk # Truncated /\ AllCompleted(disk))
        => disk.status = "completed"

(***************************************************************************)
(* C37                                                                     *)
(***************************************************************************)
\* C37: whenever a step's handler returns a result mapping without
\* raising, the step is persisted as completed with every key of the result
\* merged into its record, whatever keys the result contains (a key named
\* status, step or completed_at included); a handler that succeeded is never
\* recorded as failed.
C37_ReturnedIsCompleted ==
    \A k \in StepIdx :
        HasReturned(k) =>
            /\ outcome[k] = "completed"
            /\ (disk # Truncated /\ pc # "saving") =>
                   /\ StatusIn(disk, k) = "completed"
                   /\ \A key \in DOMAIN hres[k] :
                          GetStr(GetDict(disk.processing, workflow[k].name), key) = hres[k][key]

(***************************************************************************)
(* C38                                                                     *)
(***************************************************************************)
\* an input of step k is a reference ${s.f} to step j
RefersTo(k, j) ==
    \E n \in DOMAIN workflow[k].inputs, f \in Names :
        workflow[k].inputs[n] = Ref(workflow[j].name, f)

\* step j was completed when the run began, was executed again in the run
\* and failed
FailedAgain(j) ==
    /\ StatusIn(pre, j) = "completed"
    /\ outcome[j] = "failed"

\* C38: a reference ${s.f} resolves only to outputs of the most recent
\* execution of s: when s, completed before, is executed again in the run
\* and fails, the inputs of a later step that refers to s do not resolve, so
\* that its handler is not invoked.
C38_NoStaleOutputs ==
    InRun =>
        \A j, k \in StepIdx :
            (j < k /\ RefersTo(k, j) /\ FailedAgain(j)) => k \notin Range(invoked)

(***************************************************************************)
(* C39                                                                     *)
(***************************************************************************)
\* the steps persisted as running
InProgress(j) == {k \in StepIdx : StatusIn(j, k) = "in_progress"}

\* C39: in every persisted job record at most one step has the running
\* (in_progress) status, for every sequence of full, single-step and
\* from-step runs, runs started after a crash included.
C39_OneStepInProgress ==
    disk # Truncated => Cardinality(InProgress(disk)) <= 1

(***************************************************************************)
(* C40  The jobs of a batch whose run returned                             *)
(***************************************************************************)
FinalStatuses == {"completed", "failed", "skipped"}

\* C40: when process_batch has returned normally, every job of the saved
\* batch.yaml has status completed, failed or skipped, whatever the jobs'
\* statuses were when the run started
C40_ReturnedJobsFinished ==
    bended = "returned" =>
        \A i \in DOMAIN batch_yaml.jobs : batch_yaml.jobs[i].status \in FinalStatuses

\* a run that returned on a batch that started with a pending and a
\* processing job, one of them ended by a failing step
C40_Witness ==
    /\ bended = "returned"
    /\ \E i, k \in DOMAIN bpre.batch.jobs :
        /\ bpre.batch.jobs[i].status = "pending"
        /\ bpre.batch.jobs[k].status = "processing"
        /\ bhow[i] = "failed"
        /\ batch_yaml.jobs[k].status \in FinalStatuses

(***************************************************************************)
(* C32                                                                     *)
(***************************************************************************)
\* the matches of the highlight's keywords, in time order
MatchesFound ==
    SortByTime(AllMatches(transcript, extract_keywords_from_highlight(hpre), 1))

\* twice the score the selection rule gives a cluster: the number of its
\* distinct matched keywords, plus a half when one of them is numeric
TwiceScore(c) ==
    2 * Cardinality({c[i].keyword : i \in DOMAIN c})
        + (IF \E i \in DOMAIN c : is_number_keyword(c[i].keyword) THEN 1 ELSE 0)

\* the earliest time of the matches of the sequence ms at the positions I
EarliestTime(ms, I) ==
    CHOOSE t \in {ms[i].timestamp : i \in I} : \A i \in I : t <= ms[i].timestamp

RECURSIVE Flatten(_)
Flatten(cs) == IF cs = <<>> THEN <<>> ELSE cs[1] \o Flatten(Tail(cs))

MinSubstringLength == 5

\* C34: a word of the transcript is recorded as a match for a keyword only
\* if the word equals the keyword or, for a keyword of 5 characters or
\* more, one of the two contains the other; a keyword of fewer than 5
\* characters matches no word that is not equal to it.
C34_ExactOrContained ==
    Len(returned) = 1 =>
        \A i \in DOMAIN MatchesFound :
            LET m == MatchesFound[i]
            IN  \/ m.word = m.keyword
                \/ /\ Len(m.keyword) >= MinSubstringLength
                   /\ In(m.keyword, m.word) \/ In(m.word, m.keyword)

(***************************************************************************)
(* C35                                                                     *)
(***************************************************************************)
\* C35: once the orchestrator has marked the refine_timestamps step
\* completed, job.yaml holds the refined timestamp that the step wrote to
\* it (the one refine_job_timestamps left in the highlight): the
\* orchestrator's save of its own record has not put the timestamp from
\* before the refinement back.
C35_RefinedTimestampsPersist ==
    rpos = "completed" =>
        /\ job_yaml_path.status = "completed"
        /\ job_yaml_path.timestamp = highlight.timestamp

====
